---- MODULE Spec2Model ----
(***************************************************************************)
(* A state-machine model of chat_replay_downloader.py: the YouTube chat    *)
(* engine (ChatReplayDownloader.get_youtube_messages), the signal router   *)
(* and the output finalizer of main.                                       *)
(*                                                                         *)
(* The engine is single-threaded.  It is cut into steps at the places      *)
(* where something else can happen between two statements: a blocking      *)
(* call, or the delivery of an OS signal, whose Python-level handler runs  *)
(* between two bytecodes of the main thread and whose exception surfaces   *)
(* at the interrupted statement.                                           *)
(***************************************************************************)
EXTENDS Integers, Sequences, FiniteSets, TLC

(***************************************************************************)
(* Bounds of the model.                                                    *)
(***************************************************************************)
MaxAttempts == 2
MaxPolls == 3
MaxItems == 2
MaxTime == 2
MaxClock == 2
\* the last reading of the clock in the runs that follow the heartbeats
MaxHeartbeatClock == 6
MaxSignals == 1
MaxDirectives == 3
MaxGroups == 2
MaxConds == 2
MaxFetches == 3
MaxLen == 4

(***************************************************************************)
(* Program constants.                                                      *)
(***************************************************************************)
\* Python's None in a numeric field
None == -1
\* retry_wait_secs = random.randint(45, 60)
RetryWaitMin == 45
RetryWaitMax == 60
\* config.get('heartbeat_interval_secs', 60.0); the clock ticks in units of 60 s
HeartbeatIntervalDefault == 1
\* __MAX_RETRIES
MAX_RETRIES == 10

TYPES_OF_MESSAGES ==
    [ignore |-> {"liveChatViewerEngagementMessageRenderer",
                 "liveChatPurchasedProductMessageRenderer",
                 "liveChatPlaceholderItemRenderer",
                 "liveChatModeChangeMessageRenderer"},
     message |-> {"liveChatTextMessageRenderer"},
     superchat |-> {"liveChatMembershipItemRenderer",
                    "liveChatPaidMessageRenderer",
                    "liveChatPaidStickerRenderer",
                    "liveChatTickerPaidStickerItemRenderer",
                    "liveChatTickerPaidMessageItemRenderer",
                    "liveChatTickerSponsorItemRenderer"}]

MessageTypes == {"messages", "superchat", "all"}

\* chat_replay_field = '{} chat replay'.format(chat_type.title())
chat_replay_field(ct) == IF ct = "live" THEN "Live chat replay" ELSE "Top chat replay"
\* chat_live_field = '{} chat'.format(chat_type.title())
chat_live_field(ct) == IF ct = "live" THEN "Live chat" ELSE "Top chat"

VARIABLES
    \* arguments of get_youtube_messages
    message_type, start_time, end_time, chat_type, callback, abort_cond_groups,
    \* locals of get_youtube_messages
    pc, exc, attempt_ct, config, continuation_by_title_map, is_live, continuation,
    first_time,
    use_non_api_fallback, abort_cond_state, info, cur, messages,
    retry_wait_secs,
    \* the heartbeat request the abort-state updater has sent last
    heartbeat,
    \* the continuation request sent last, with its answer
    request,
    \* the last call of abort_cond_checker.check: what its predicates read outside
    \* the state and the message of the exception it raised
    check_result,
    \* the environment as the engine has observed it
    delivered, seen, polls, clock,
    \* the lines print_item has written to standard output
    stdout,
    \* locals of get_twitch_messages: the cursor, and the response being read
    \* (the comments the for loop has not reached yet, and whether it has _next)
    cursor, twitch_info,
    \* main: the output path, the signal router and the finalizer
    output, abort_signals, handlers, called_finalize_output, fin, mainpc,
    file, sigLog, sigCount, pending_signals,
    \* one call of a function that reads an HTML page: the function, the pages
    \* __session_get returned to it and to its recursive calls, its outcome
    fetch_fn, fetched, fetch_result,
    \* one call of __session_get: its argument, its try counter, what the last
    \* request ended with, and what the call returned or raised
    post_payload, connection_read_timeout_try_ct, session_last, session_result,
    \* one call of parse_abort_condition_group: its argument, the position the
    \* tokenizer has reached (the first character is at 1), the predicates it has
    \* yielded, and the message of the error the call raised
    raw_cond_group, prev_pos, raw_conds, parse_error,
    \* one call of __get_youtube_json: the JSON __session_get_json returned to
    \* it, and what the call returned or raised
    json_data, json_result,
    \* one call of __parse_item: the item_info of its argument and the data it
    \* returned
    item_info, item_data,
    \* __seconds_to_time on a number of seconds, then __time_to_seconds on the
    \* text: the number, the text, and what the second call returned or raised
    seconds, time_text, round_trip

argVars == <<message_type, start_time, end_time, chat_type, callback, abort_cond_groups>>
loopVars == <<attempt_ct, config, continuation_by_title_map, is_live, continuation,
              first_time,
              use_non_api_fallback, abort_cond_state, info, cur,
              retry_wait_secs, request, check_result, polls, clock, heartbeat>>
engineVars == <<pc, exc, loopVars, messages, delivered, seen>>
routerVars == <<output, abort_signals, handlers, sigCount, pending_signals>>
mainVars == <<routerVars, called_finalize_output, fin, mainpc, file, sigLog>>
parseVars == <<raw_cond_group, prev_pos, raw_conds, parse_error>>
jsonVars == <<json_data, json_result>>
pureVars == <<item_info, item_data, seconds, time_text, round_trip>>
unitVars == <<fetch_fn, fetched, fetch_result,
             post_payload, connection_read_timeout_try_ct, session_last, session_result,
             parseVars, jsonVars, pureVars>>
twitchVars == <<cursor, twitch_info>>
vars == <<argVars, engineVars, mainVars, unitVars, stdout, twitchVars>>

(***************************************************************************)
(* What the platform can answer.  Every set is a bounded sample of the     *)
(* answers the code distinguishes.                                         *)
(***************************************************************************)
Times == 0..MaxTime
SstValues == {None, 1}

\* continuation_by_title_map[title]: the token the watch page lists for a title
TokenOf(title) ==
    CASE title = "Live chat replay" -> 10
      [] title = "Live chat" -> 20
      [] title = "Top chat replay" -> 30
      [] OTHER -> 40

\* the video's state in ytInitialPlayerResponse: videoDetails and playabilityStatus
VideoEnded == [is_upcoming |-> FALSE, is_live |-> FALSE,
               playability_status |-> "OK", scheduled_start_time |-> None]
VideoLive == [is_upcoming |-> FALSE, is_live |-> TRUE,
              playability_status |-> "OK", scheduled_start_time |-> None]
VideoUpcoming(sst) == [is_upcoming |-> TRUE, is_live |-> FALSE,
                       playability_status |-> "LIVE_STREAM_OFFLINE",
                       scheduled_start_time |-> sst]

\* results of __get_initial_youtube_info: (config, continuation_by_title_map) or an exception
WatchPages ==
    {[kind |-> "ParsingError"], [kind |-> "VideoUnavailable"]}
    \cup {[kind |-> "ok", titles |-> ts, video |-> VideoEnded] :
            ts \in {{"Live chat replay"}, {"Live chat replay", "Live chat"},
                    {"Top chat replay"}, {}}}
    \cup {[kind |-> "ok", titles |-> ts, video |-> VideoLive] :
            ts \in {{"Live chat"}, {}}}
    \cup {[kind |-> "ok", titles |-> ts, video |-> VideoUpcoming(sst)] :
            ts \in {{"Live chat"}, {}}, sst \in SstValues}

\* liveChatContinuation objects: 'actions' present or not
\* the engine has not looked at the continuations of the object yet
Unread == [cont |-> "unread", timeoutMs |-> FALSE]
Infos == {[hasActions |-> a, continuations |-> Unread] : a \in BOOLEAN}
NoInfo == [hasActions |-> FALSE, continuations |-> Unread]
\* continuations[0] of such an object: absent, or its one sub-key with a new
\* token, with or without timeoutMs
Continuations == {[cont |-> "none", timeoutMs |-> FALSE],
                  [cont |-> "next", timeoutMs |-> FALSE],
                  [cont |-> "next", timeoutMs |-> TRUE]}
\* a sub-key without the key continuation: the engine keeps its token
TokenlessContinuations == {[cont |-> "kept", timeoutMs |-> FALSE],
                           [cont |-> "kept", timeoutMs |-> TRUE]}

\* results of the continuation endpoints
BootstrapResults ==
    {[kind |-> "ParsingError"]}
    \cup {[kind |-> "none", logged_out |-> lo] : lo \in BOOLEAN}
    \cup {[kind |-> "info", info |-> i, logged_out |-> lo] : i \in Infos, lo \in BOOLEAN}
FallbackResults ==
    {[kind |-> "ParsingError"], [kind |-> "none"]}
    \cup {[kind |-> "info", info |-> i] : i \in Infos}
\* responseContext.mainAppWebResponseContext.loggedOut of an API answer
LoggedOutFields == {"true", "false", "missing"}
ApiResults ==
    {[kind |-> "error", code |-> c] : c \in {403, 404, 500}}
    \cup {[kind |-> "none", loggedOut |-> lo] : lo \in LoggedOutFields}
    \cup {[kind |-> "info", info |-> i] : i \in Infos}
\* heartbeatParams.intervalMilliseconds of the watch page, in ticks of the
\* clock, None when the page declares none; the runs that follow the heartbeats
\* are given pages that declare one
IntervalsDeclared(caller) == IF caller = "heartbeats" THEN {None, 2} ELSE {None}

\* results of the heartbeat (API) and of the watch page used in its place
HeartbeatResults ==
    {[kind |-> "error", code |-> c] : c \in {403, 404, 500}}
    \cup {[kind |-> "ok", playability_status |-> s, scheduled_start_time |-> t] :
            s \in {"OK", "LIVE_STREAM_OFFLINE"}, t \in SstValues}
FallbackHeartbeatResults ==
    {[kind |-> "ParsingError"]}
    \cup {[kind |-> "ok", playability_status |-> s, scheduled_start_time |-> t] :
            s \in {"OK", "LIVE_STREAM_OFFLINE"}, t \in SstValues}

\* one action of a response: the renderer of its item (when it has one), its
\* timestampText, timestampUsec and durationSec (None when absent), whether the
\* normalizer fails on it, and whether its message holds a link run
Item(r, h, t, u, d, b, l) ==
    [rend |-> r, hasItem |-> h, time |-> t, usec |-> u, durationSec |-> d,
     bad |-> b, link |-> l]
\* The items of a replay carry timestampText and timestampUsec, those of a live
\* chat timestampUsec alone.  The ticker item mirrors the paid message: the
\* renderer under its showItemEndpoint brings the same fields.
Items ==
    {Item("liveChatTextMessageRenderer", TRUE, t, 7, None, FALSE, FALSE) : t \in Times}
    \cup {Item("liveChatPaidMessageRenderer", TRUE, 1, 7, None, FALSE, FALSE),
          Item("liveChatTickerPaidMessageItemRenderer", TRUE, 1, 7, 5, FALSE, FALSE),
          Item("liveChatPlaceholderItemRenderer", TRUE, 1, 7, None, FALSE, FALSE),
          Item("liveChatTextMessageRenderer", FALSE, None, None, None, FALSE, FALSE),
          Item("liveChatTextMessageRenderer", TRUE, 1, 7, None, TRUE, FALSE),
          Item("liveChatTextMessageRenderer", TRUE, None, 7, None, FALSE, TRUE)}
\* the part of Items offered to the runs that main starts and to the runs with
\* abort conditions
MainItems ==
    {Item("liveChatTextMessageRenderer", TRUE, 1, 7, None, FALSE, FALSE),
     Item("liveChatTickerPaidMessageItemRenderer", TRUE, 1, 7, 5, FALSE, FALSE),
     Item("liveChatTextMessageRenderer", TRUE, None, 7, None, FALSE, TRUE)}
\* an action whose item has no key: list(item.keys())[0] raises IndexError
Malformed(item) == item.hasItem /\ item.rend = ""
\* the part offered to the runs that follow the failures of single actions,
\* with an item of no key and an item the normalizer fails on
ActionItems ==
    {Item("liveChatTextMessageRenderer", TRUE, 1, 7, None, FALSE, FALSE),
     Item("liveChatTextMessageRenderer", TRUE, None, 7, None, FALSE, TRUE),
     Item("liveChatTextMessageRenderer", TRUE, 1, 7, None, TRUE, FALSE),
     Item("", TRUE, None, None, None, FALSE, FALSE)}
\* the part offered to the runs that follow the heartbeats
HeartbeatItems ==
    {Item("liveChatTextMessageRenderer", TRUE, None, 7, None, FALSE, TRUE)}

(***************************************************************************)
(* Pure parts of the engine.                                               *)
(***************************************************************************)
\* variant: the live title is looked up before the replay title
Phase1DecisionLiveFirst(titles, ct, video) ==
    IF chat_live_field(ct) \in titles THEN "live"
    ELSE IF chat_replay_field(ct) \in titles THEN "replay"
    ELSE IF video.is_upcoming \/ video.is_live THEN "retry"
    ELSE "nochat"

\* the if/elif over continuation_by_title_map and the branch on continuation_title
Phase1Decision(titles, ct, video) ==
    IF chat_replay_field(ct) \in titles THEN "replay"
    ELSE IF chat_live_field(ct) \in titles THEN "live"
    ELSE IF video.is_upcoming \/ video.is_live THEN "retry"
    ELSE "nochat"

\* variant: the test on the ignore class is missing
SkippedByTypeNoIgnore(mt, index) ==
    IF mt = "all" THEN FALSE
    ELSE IF mt # "superchat" /\ index \in TYPES_OF_MESSAGES.superchat THEN TRUE
    ELSE IF mt # "messages" /\ index \in TYPES_OF_MESSAGES.message THEN TRUE
    ELSE FALSE

\* the three tests on index and message_type: TRUE when the item is skipped
SkippedByType(mt, index) ==
    IF index \in TYPES_OF_MESSAGES.ignore THEN TRUE
    ELSE IF mt = "all" THEN FALSE
    ELSE IF mt # "superchat" /\ index \in TYPES_OF_MESSAGES.superchat THEN TRUE
    ELSE IF mt # "messages" /\ index \in TYPES_OF_MESSAGES.message THEN TRUE
    ELSE FALSE

\* variant: a record that has time_in_seconds gets no timestamp
ParseItemOneClock(item) ==
    [id |-> item.id, rend |-> item.rend,
     timestamp |-> IF item.time # None THEN None ELSE item.usec,
     time_in_seconds |-> item.time,
     ticker_duration |-> item.durationSec]

\* the record __parse_item builds, as far as the engine and the sinks read it:
\* timestamp when timestampUsec is there, time_in_seconds when time_text is,
\* ticker_duration for durationSec; None stands for a key the record lacks
ParseItem(item) ==
    [id |-> item.id, rend |-> item.rend,
     timestamp |-> item.usec,
     time_in_seconds |-> item.time,
     ticker_duration |-> item.durationSec]

\* message_to_string: the datetime when the record has one, else the time text,
\* else nothing; the amount of a paid item; the author and the message, which
\* stand here as the number of the item
MessageToString(item) ==
    "[" \o (IF item.timestamp # None THEN "datetime " \o ToString(item.timestamp)
            ELSE IF item.time_in_seconds # None THEN ToString(item.time_in_seconds)
            ELSE "")
        \o "] "
        \o (IF item.rend \in TYPES_OF_MESSAGES.superchat THEN "*amount* " ELSE "")
        \o "author" \o ToString(item.id) \o ": message" \o ToString(item.id)

\* variant: the test on ticker_duration is missing
print_item_always(item, out) == Append(out, MessageToString(item))

\* print_item: nothing for a ticker record, one line for any other
print_item(item, out) ==
    IF item.ticker_duration # None THEN out
    ELSE Append(out, MessageToString(item))

\* variant of write_to_file: the test on ticker_duration is missing
write_to_file_always(item, f, out) ==
    [file |-> [state |-> "appended", content |-> Append(f.content, MessageToString(item))],
     stdout |-> print_item(item, out)]

\* main's write_to_file: nothing for a ticker record; for any other the file is
\* opened for appending, print_item runs, and the line is written to the file
write_to_file(item, f, out) ==
    IF item.ticker_duration # None THEN [file |-> f, stdout |-> out]
    ELSE [file |-> [state |-> "appended",
                    content |-> Append(f.content, MessageToString(item))],
          stdout |-> print_item(item, out)]

\* variant: >= in place of >
PastEndTimeInclusive(et, data) ==
    et # None /\ data.time_in_seconds # None /\ data.time_in_seconds >= et

\* end_time is not None and valid_seconds and time_in_seconds > end_time
PastEndTime(et, data) ==
    et # None /\ data.time_in_seconds # None /\ data.time_in_seconds > et

\* variant: > in place of >=
PassesStartTimeStrict(live, st, data) ==
    live \/ st = None \/ (data.time_in_seconds # None /\ data.time_in_seconds > st)

\* is_live or start_time is None or (valid_seconds and time_in_seconds >= start_time)
PassesStartTime(live, st, data) ==
    live \/ st = None \/ (data.time_in_seconds # None /\ data.time_in_seconds >= st)

\* the except clauses around the continuation fetch and around the whole body
EngineCatches(name, at) ==
    \/ at = "fetch" /\ name \in {"NoContinuation", "VideoUnavailable", "VideoNotFound"}
    \/ name \in {"AbortConditionsSatisfied", "KeyboardInterrupt"}

\* variant: every error of the API is a ParsingError
JsonErrorAlwaysParsing(code) == "ParsingError"

\* error.code of a JSON answer to the exception __get_youtube_json raises
JsonError(code) ==
    IF code = 403 THEN "VideoUnavailable"
    ELSE IF code = 404 THEN "VideoNotFound"
    ELSE "ParsingError"

\* str[i] as a string of one character
Char(str, i) == SubSeq(str, i, i)

\* str.startswith(prefix)
StartsWith(str, prefix) ==
    Len(str) >= Len(prefix) /\ SubSeq(str, 1, Len(prefix)) = prefix

\* a predicate of a condition group, (raw_cond, cond_func): the name of the
\* condition and the argument its closure holds (a path, a number of seconds
\* in units of the clock)
Cond(name, arg) == [name |-> name, arg |-> arg]
\* None, the falsy result of a predicate
Falsy == ""

\* file_exists: os.path.isfile(path)
file_exists(path, env) ==
    IF env.fileExists THEN "file " \o ToString(path) \o " exists" ELSE Falsy

\* min_time_until_scheduled_start_time: the scheduled start is set and more
\* than min_secs after time.time()
min_time_until_scheduled_start_time(min_secs, state, env) ==
    IF state.scheduled_start_time = None THEN Falsy
    ELSE IF state.scheduled_start_time - env.now > min_secs
    THEN ToString(state.scheduled_start_time - env.now) \o " secs >= "
            \o ToString(min_secs) \o " secs"
    ELSE Falsy

\* '{:02d}'.format(n)
Pad2(n) == IF n < 10 THEN "0" \o ToString(n) ELSE ToString(n)

\* the directives of the sample formats: the hour, the minute and the second
\* of a time given in seconds
StrfDirectives == {"H", "M", "S"}

\* whether the round trip through strftime and strptime that the parser tries
\* on the format succeeds: every % is followed by a directive
RECURSIVE ValidFormat(_)
ValidFormat(fmt) ==
    IF Len(fmt) = 0 THEN TRUE
    ELSE IF Char(fmt, 1) # "%" THEN ValidFormat(SubSeq(fmt, 2, Len(fmt)))
    ELSE /\ Len(fmt) >= 2
         /\ Char(fmt, 2) \in StrfDirectives
         /\ ValidFormat(SubSeq(fmt, 3, Len(fmt)))

\* datetime.strftime(datetime_format) of a valid format
RECURSIVE StrfTime(_, _)
StrfTime(t, fmt) ==
    IF Len(fmt) = 0 THEN ""
    ELSE IF Char(fmt, 1) # "%"
    THEN Char(fmt, 1) \o StrfTime(t, SubSeq(fmt, 2, Len(fmt)))
    ELSE (CASE Char(fmt, 2) = "H" -> Pad2((t \div 3600) % 24)
            [] Char(fmt, 2) = "M" -> Pad2((t \div 60) % 60)
            [] OTHER -> Pad2(t % 60))
         \o StrfTime(t, SubSeq(fmt, 3, Len(fmt)))

\* variant: the direction of the change is not looked at
WrongDirectionAny(change_type, orig, sst) == orig = sst

\* the three early returns of changed_scheduled_start_time on the direction
WrongDirection(change_type, orig, sst) ==
    IF change_type = "increased" THEN orig >= sst
    ELSE IF change_type = "decreased" THEN orig <= sst
    ELSE orig = sst

\* changed_scheduled_start_time: both times are set, the change has the
\* direction of change_type and the formatted times differ
changed_scheduled_start_time(arg, state) ==
    IF state.orig_scheduled_start_time = None \/ state.scheduled_start_time = None
    THEN Falsy
    ELSE IF WrongDirection(arg.change_type, state.orig_scheduled_start_time,
                          state.scheduled_start_time)
    THEN Falsy
    ELSE IF StrfTime(state.orig_scheduled_start_time, arg.datetime_format)
            # StrfTime(state.scheduled_start_time, arg.datetime_format)
    THEN "scheduled start time formatted as " \o ToString(arg.datetime_format) \o " "
            \o arg.change_type \o " to "
            \o StrfTime(state.scheduled_start_time, arg.datetime_format)
            \o " (originally "
            \o StrfTime(state.orig_scheduled_start_time, arg.datetime_format) \o ")"
    ELSE Falsy

\* cond_func(**self.state)
CondFunc(cond, state, env) ==
    IF cond.name = "file_exists" THEN file_exists(cond.arg, env)
    ELSE IF cond.name = "changed_scheduled_start_time"
    THEN changed_scheduled_start_time(cond.arg, state)
    ELSE min_time_until_scheduled_start_time(cond.arg, state, env)

\* ' AND '.join(cond_results)
RECURSIVE JoinAnd(_)
JoinAnd(cond_results) ==
    IF Len(cond_results) = 0 THEN ""
    ELSE IF Len(cond_results) = 1 THEN cond_results[1]
    ELSE cond_results[1] \o " AND " \o JoinAnd(Tail(cond_results))

\* variant: a group is truthy as soon as one of its predicates is
RECURSIVE CheckCondGroupAny(_, _, _)
CheckCondGroupAny(group, state, env) ==
    IF Len(group) = 0 THEN Falsy
    ELSE LET cond_result == CondFunc(Head(group), state, env) IN
         IF cond_result # Falsy THEN cond_result
         ELSE CheckCondGroupAny(Tail(group), state, env)

\* the loop of _check_cond_group from the predicate at the head of rest on,
\* cond_results holding the messages so far
RECURSIVE CheckCondGroupLoop(_, _, _, _)
CheckCondGroupLoop(rest, cond_results, state, env) ==
    IF Len(rest) = 0 THEN JoinAnd(cond_results)
    ELSE LET cond_result == CondFunc(Head(rest), state, env) IN
         IF cond_result = Falsy THEN Falsy
         ELSE CheckCondGroupLoop(Tail(rest), Append(cond_results, cond_result), state, env)

\* _check_cond_group: the joined messages when every predicate of the group is
\* truthy and there is at least one, None otherwise
CheckCondGroup(group, state, env) ==
    CheckCondGroupLoop(group, <<>>, state, env)

\* the loop of check over the groups, after the state update: the message of
\* the AbortConditionsSatisfied it raises, None when it raises nothing
RECURSIVE CheckCondGroups(_, _, _)
CheckCondGroups(groups, state, env) ==
    IF Len(groups) = 0 THEN Falsy
    ELSE LET cond_group_result == CheckCondGroup(Head(groups), state, env) IN
         IF cond_group_result # Falsy THEN cond_group_result
         ELSE CheckCondGroups(Tail(groups), state, env)

\* variant: check never raises
CheckRaisesNever(groups, state, env) == FALSE

\* AbortConditionChecker.check after the state update: some group is truthy
CheckRaises(groups, state, env) ==
    CheckCondGroups(groups, state, env) # Falsy

\* what the predicates read outside the state: the file system and time.time()
LastClock(caller) == IF caller = "heartbeats" THEN MaxHeartbeatClock ELSE MaxClock
Envs(lo) ==
    [fileExists : IF mainpc = "heartbeats" THEN {FALSE} ELSE BOOLEAN,
     now : lo..LastClock(mainpc)]

(***************************************************************************)
(* The abort-state updaters of get_youtube_messages.                       *)
(***************************************************************************)
InitAbortCondState ==
    [orig_scheduled_start_time |-> None, scheduled_start_time |-> None,
     playability_status |-> "unset", poll_timestamp |-> None]

\* variant: orig_scheduled_start_time follows the config
NochatUpdaterRelatches(state, cfg) ==
    [state EXCEPT
        !.playability_status = cfg.playability_status,
        !.orig_scheduled_start_time = cfg.scheduled_start_time,
        !.scheduled_start_time = cfg.scheduled_start_time]

\* nochat_abort_cond_state_updater
NochatAbortCondStateUpdater(state, cfg) ==
    [state EXCEPT
        !.playability_status = cfg.playability_status,
        !.orig_scheduled_start_time =
            IF @ = None THEN cfg.scheduled_start_time ELSE @,
        !.scheduled_start_time = cfg.scheduled_start_time]

\* whether abort_cond_state_updater reads the clock, and whether it then polls
UpdaterReadsClock(state) ==
    state.poll_timestamp = None \/ state.playability_status # "OK"
\* config.get('heartbeat_interval_secs', 60.0)
HeartbeatInterval(cfg) ==
    IF cfg.heartbeat_interval_secs = None THEN HeartbeatIntervalDefault
    ELSE cfg.heartbeat_interval_secs
\* variant: the heartbeat is not throttled
UpdaterPollsUnthrottled(state, cfg, now) ==
    /\ state.poll_timestamp # None
    /\ state.playability_status # "OK"
UpdaterPolls(state, cfg, now) ==
    /\ state.poll_timestamp # None
    /\ state.playability_status # "OK"
    /\ now > state.poll_timestamp + HeartbeatInterval(cfg)

\* abort_cond_state_updater, given the clock it reads and the answer to the
\* heartbeat it may issue: the new state and the exception it ends with
AbortCondStateUpdater(state, cfg, now, hb) ==
    IF state.poll_timestamp = None
    THEN [state |-> [NochatAbortCondStateUpdater(state, cfg) EXCEPT !.poll_timestamp = now],
          raises |-> "none"]
    ELSE IF UpdaterPolls(state, cfg, now)
    THEN IF hb.kind = "ok"
         THEN [state |-> [state EXCEPT !.poll_timestamp = now,
                                       !.playability_status = hb.playability_status,
                                       !.scheduled_start_time = hb.scheduled_start_time],
               raises |-> "none"]
         ELSE [state |-> [state EXCEPT !.poll_timestamp = now],
               raises |-> IF hb.kind = "error" THEN JsonError(hb.code) ELSE hb.kind]
    ELSE [state |-> state, raises |-> "none"]

\* no heartbeat has been sent
NoHeartbeat == [endpoint |-> "none", sequenceNumber |-> None, at |-> None, has_api |-> FALSE]

\* variant: the sequence number is left as it is
NextSequenceNumberKept(cfg) == cfg

\* __get_playability_info, before the request:
\* config['heartbeat_sequence_number'] = sequence_number + 1
NextSequenceNumber(cfg) ==
    [cfg EXCEPT !.heartbeat_sequence_number = @ + 1]

\* variant: the heartbeat goes to the API whatever the flag
PlayabilityEndpointApi(fallback) == "api"

\* if use_non_api_fallback: the watch page, else the API heartbeat
PlayabilityEndpoint(fallback) ==
    IF fallback THEN "fallback" ELSE "api"

\* the request of __get_playability_info (url and payload read api_version,
\* api_key and context of config, the payload carries sequenceNumber) or of
\* __get_fallback_playability_info, sent when the clock reads now
HeartbeatSent(cfg, fallback, now) ==
    [endpoint |-> PlayabilityEndpoint(fallback),
     sequenceNumber |-> IF PlayabilityEndpoint(fallback) = "api"
                        THEN cfg.heartbeat_sequence_number ELSE None,
     at |-> now,
     has_api |-> cfg.has_api]

(***************************************************************************)
(* The engine: get_youtube_messages.                                       *)
(***************************************************************************)
NoItem == [id |-> 0, rend |-> "", hasItem |-> FALSE, time |-> None, usec |-> None,
           durationSec |-> None, bad |-> FALSE, link |-> FALSE]
InitConfig == [is_upcoming |-> FALSE, is_live |-> FALSE, playability_status |-> "unset",
               scheduled_start_time |-> None, logged_out |-> TRUE, has_api |-> FALSE,
               heartbeat_interval_secs |-> None, heartbeat_sequence_number |-> 0]
NoExc == [name |-> "none", at |-> "none"]
\* no continuation request has been sent
NoRequest == [endpoint |-> "none", continuation |-> 0, answer |-> "none", loggedOut |-> FALSE,
              loggedOutField |-> "none"]
\* no call of abort_cond_checker.check is on record
NoCheck == [called |-> FALSE, env |-> [fileExists |-> FALSE, now |-> 0], raised |-> Falsy]
\* variant: the call of check leaves no trace
CheckedUnrecorded(env, message) == NoCheck

\* check ran under env and raised AbortConditionsSatisfied(message), or nothing
Checked(env, message) ==
    [called |-> TRUE, env |-> env, raised |-> message]

Running == pc \notin {"returned", "raised"}

\* the engine's code runs: no signal handler is on the stack, main is in the call
EngineTurn ==
    Running /\ fin = <<>> /\ mainpc \in {"library", "call", "polling", "heartbeats", "actions"}

\* an exception raised at step `at` leaves the call: through return messages
\* when an except clause catches it, as itself otherwise
EngineEnds(name, at) ==
    /\ exc' = [name |-> name, at |-> at]
    /\ pc' = IF EngineCatches(name, at) THEN "returned" ELSE "raised"

\* break, or return messages
EngineReturns(at) ==
    /\ exc' = [name |-> "none", at |-> at]
    /\ pc' = "returned"

\* the next action of the response, after the current one is done with
NextAction ==
    /\ pc' = "p3_item"
    /\ cur' = NoItem

\* variant: the exception leaves the loop
ActionFailsFatal ==
    /\ EngineEnds("Exception", "item")
    /\ UNCHANGED cur

\* except Exception around one action: the stack trace is printed, the loop
\* goes on with the next action
ActionFails ==
    /\ NextAction
    /\ UNCHANGED exc

\* Phase I, one attempt: the watch page, then the choice of replay, live, retry
Phase1Attempt ==
    /\ EngineTurn /\ pc = "p1_fetch"
    /\ attempt_ct < MaxAttempts
    /\ attempt_ct' = attempt_ct + 1
    /\ \E page \in WatchPages, interval \in IntervalsDeclared(mainpc) :
        IF page.kind # "ok"
        THEN /\ EngineEnds(page.kind, "phase1")
             /\ UNCHANGED <<config, continuation_by_title_map, is_live, continuation>>
        ELSE LET d == Phase1Decision(page.titles, chat_type, page.video) IN
             /\ continuation_by_title_map' = page.titles
             /\ config' = [is_upcoming |-> page.video.is_upcoming,
                           is_live |-> page.video.is_live,
                           playability_status |-> page.video.playability_status,
                           scheduled_start_time |-> page.video.scheduled_start_time,
                           logged_out |-> TRUE, has_api |-> FALSE,
                           heartbeat_interval_secs |-> interval,
                           heartbeat_sequence_number |-> 0]
             /\ CASE d = "replay" ->
                        /\ is_live' = FALSE
                        /\ continuation' = TokenOf(chat_replay_field(chat_type))
                        /\ pc' = "p3_check"
                        /\ UNCHANGED exc
                  [] d = "live" ->
                        /\ is_live' = TRUE
                        /\ continuation' = TokenOf(chat_live_field(chat_type))
                        /\ pc' = "p3_check"
                        /\ UNCHANGED exc
                  [] d = "retry" ->
                        /\ pc' = "p1_check"
                        /\ UNCHANGED <<exc, is_live, continuation>>
                  [] OTHER ->
                        /\ EngineEnds("NoChatReplay", "phase1")
                        /\ UNCHANGED <<is_live, continuation>>
    /\ UNCHANGED <<argVars, stdout, twitchVars, unitVars, check_result, request, mainVars, first_time, use_non_api_fallback, abort_cond_state,
                   info, cur, retry_wait_secs, heartbeat, polls, clock, messages, delivered, seen>>

\* Phase I, no chat yet: the abort check, then the choice of the retry wait
Phase1AbortCheck ==
    /\ EngineTurn /\ pc = "p1_check"
    /\ \E env \in Envs(clock), wait \in RetryWaitMin..RetryWaitMax :
        IF Len(abort_cond_groups) = 0
        THEN /\ pc' = "p1_sleep"
             /\ retry_wait_secs' = wait
             /\ UNCHANGED <<exc, abort_cond_state, check_result>>
        ELSE /\ abort_cond_state' = NochatAbortCondStateUpdater(abort_cond_state, config)
             /\ check_result' = Checked(env, CheckCondGroups(abort_cond_groups,
                                                             abort_cond_state', env))
             /\ IF CheckRaises(abort_cond_groups, abort_cond_state', env)
                THEN /\ EngineEnds("AbortConditionsSatisfied", "phase1_check")
                     /\ UNCHANGED retry_wait_secs
                ELSE /\ pc' = "p1_sleep"
                     /\ retry_wait_secs' = wait
                     /\ UNCHANGED exc
    /\ UNCHANGED <<argVars, stdout, twitchVars, unitVars, request, mainVars, attempt_ct, config, continuation_by_title_map,
                   is_live, continuation, first_time,
                   use_non_api_fallback, info, cur, heartbeat, polls, clock, messages,
                   delivered, seen>>

\* time.sleep(retry_wait_secs), then the next attempt
Phase1Sleep ==
    /\ EngineTurn /\ pc = "p1_sleep"
    /\ pc' = "p1_fetch"
    /\ retry_wait_secs' = 0
    /\ check_result' = NoCheck
    /\ UNCHANGED <<argVars, stdout, twitchVars, unitVars, request, mainVars, exc, attempt_ct, config,
                   continuation_by_title_map, is_live, continuation,
                   first_time, use_non_api_fallback, abort_cond_state, info, cur,
                   heartbeat, polls, clock, messages, delivered, seen>>

\* Phase III, head of the loop: the abort-state updater (with its heartbeat)
\* and the abort check
Phase3AbortCheck ==
    /\ EngineTurn /\ pc = "p3_check"
    /\ IF Len(abort_cond_groups) = 0
       THEN /\ pc' = "p3_fetch"
            /\ UNCHANGED <<exc, abort_cond_state, clock, check_result, config, heartbeat>>
       ELSE \E now \in clock..LastClock(mainpc), env \in Envs(clock),
               hb \in (IF use_non_api_fallback THEN FallbackHeartbeatResults
                       ELSE HeartbeatResults) :
            LET u == AbortCondStateUpdater(abort_cond_state, config, now, hb) IN
            /\ env.now >= now
            /\ clock' = IF UpdaterReadsClock(abort_cond_state) THEN now ELSE clock
            /\ abort_cond_state' = u.state
            /\ IF UpdaterPolls(abort_cond_state, config, now)
               THEN /\ heartbeat' = HeartbeatSent(config, use_non_api_fallback, now)
                    /\ config' = IF heartbeat'.endpoint = "api"
                                 THEN NextSequenceNumber(config) ELSE config
               ELSE UNCHANGED <<config, heartbeat>>
            /\ IF u.raises # "none"
               THEN EngineEnds(u.raises, "heartbeat") /\ UNCHANGED check_result
               ELSE /\ check_result' = Checked(env, CheckCondGroups(abort_cond_groups,
                                                                    u.state, env))
                    /\ IF CheckRaises(abort_cond_groups, u.state, env)
                       THEN EngineEnds("AbortConditionsSatisfied", "check")
                       ELSE pc' = "p3_fetch" /\ UNCHANGED exc
    /\ UNCHANGED <<argVars, stdout, twitchVars, unitVars, request, mainVars, attempt_ct,
                   continuation_by_title_map, is_live, continuation, first_time,
                   use_non_api_fallback, info, cur, retry_wait_secs, polls,
                   messages, delivered, seen>>

\* a liveChatContinuation object is in hand: on to its actions
GotInfo(i) ==
    /\ info' = i
    /\ pc' = "p3_item"
    /\ UNCHANGED exc

\* variant: the fallback flag is not looked at
EndpointIgnoresFallback(first, fallback) ==
    IF first THEN "bootstrap" ELSE "api"

\* the if/elif/else on first_time and use_non_api_fallback: the endpoint asked
Endpoint(first, fallback) ==
    IF first THEN "bootstrap"
    ELSE IF fallback THEN "fallback"
    ELSE "api"

\* variant: a missing loggedOut counts as false
ExtractLoggedOutMissingFalse(field) == field = "true"

\* __extract_logged_out: a missing loggedOut counts as true
ExtractLoggedOut(field) ==
    field # "false"

\* variant: api_version, api_key and context are not stored
StoreLoggedOutOnly(cfg, logged_out) == [cfg EXCEPT !.logged_out = logged_out]

\* __get_initial_continuation_info: config.update with api_version, api_key
\* and context of ytcfg, then config['logged_out']
StoreApiConfig(cfg, logged_out) ==
    [cfg EXCEPT !.has_api = TRUE, !.logged_out = logged_out]

\* a continuation request as sent, and what came back: an exception, no
\* liveChatContinuation object (with the loggedOut of the answer), or one
Request(endpoint, token, answer) ==
    [endpoint |-> endpoint, continuation |-> token, answer |-> answer.kind,
     loggedOut |-> IF endpoint = "api" /\ answer.kind = "none"
                   THEN ExtractLoggedOut(answer.loggedOut) ELSE FALSE,
     loggedOutField |-> IF endpoint = "api" /\ answer.kind = "none"
                        THEN answer.loggedOut ELSE "none"]

\* Phase III, the fetch: bootstrap page, HTML fallback page, or API
ContinuationFetch ==
    /\ EngineTurn /\ pc = "p3_fetch"
    /\ polls < MaxPolls
    /\ polls' = polls + 1
    /\ LET endpoint == Endpoint(first_time, use_non_api_fallback) IN
       IF endpoint = "bootstrap"
       THEN \E r \in BootstrapResults :
            /\ request' = Request(endpoint, continuation, r)
            /\ CASE r.kind = "ParsingError" ->
                    /\ EngineEnds("ParsingError", "fetch")
                    /\ UNCHANGED <<config, info, use_non_api_fallback>>
              [] r.kind = "none" ->
                    /\ config' = StoreApiConfig(config, r.logged_out)
                    /\ EngineEnds("NoContinuation", "fetch")
                    /\ UNCHANGED <<info, use_non_api_fallback>>
              [] OTHER ->
                    /\ config' = StoreApiConfig(config, r.logged_out)
                    /\ GotInfo(r.info)
                    /\ UNCHANGED use_non_api_fallback
       ELSE IF endpoint = "fallback"
       THEN \E r \in FallbackResults :
            /\ request' = Request(endpoint, continuation, r)
            /\ CASE r.kind = "ParsingError" ->
                    /\ EngineEnds("ParsingError", "fetch")
                    /\ UNCHANGED <<config, info, use_non_api_fallback>>
              [] r.kind = "none" ->
                    /\ EngineEnds("NoContinuation", "fetch")
                    /\ UNCHANGED <<config, info, use_non_api_fallback>>
              [] OTHER ->
                    /\ GotInfo(r.info)
                    /\ UNCHANGED <<config, use_non_api_fallback>>
       ELSE \E r \in ApiResults :
            /\ request' = Request(endpoint, continuation, r)
            /\ CASE r.kind = "error" ->
                    /\ EngineEnds(JsonError(r.code), "fetch")
                    /\ UNCHANGED <<config, info, use_non_api_fallback>>
              [] r.kind = "none" ->
                    IF ~config.logged_out /\ ExtractLoggedOut(r.loggedOut)
                    THEN /\ use_non_api_fallback' = TRUE
                         /\ pc' = "p3_check"
                         /\ UNCHANGED <<exc, config, info>>
                    ELSE /\ EngineEnds("NoContinuation", "fetch")
                         /\ UNCHANGED <<config, info, use_non_api_fallback>>
              [] OTHER ->
                    /\ GotInfo(r.info)
                    /\ UNCHANGED <<config, use_non_api_fallback>>
    /\ check_result' = NoCheck
    /\ UNCHANGED <<argVars, stdout, twitchVars, unitVars, mainVars, attempt_ct, continuation_by_title_map, is_live,
                   continuation, first_time,
                   abort_cond_state, cur, retry_wait_secs, heartbeat, clock, messages, delivered, seen>>

\* one action of the response: unwrap, drop what has no item, the ignore class
\* and what message_type excludes
ItemBegin ==
    /\ EngineTurn /\ pc = "p3_item"
    /\ info.hasActions
    /\ Len(seen) < MaxItems
    /\ \E it \in (IF mainpc = "library" /\ abort_cond_groups = <<>> THEN Items
                 ELSE IF mainpc = "heartbeats" THEN HeartbeatItems
                 ELSE IF mainpc = "actions" THEN ActionItems
                 ELSE MainItems) :
        LET item == [id |-> Len(seen) + 1, rend |-> it.rend, hasItem |-> it.hasItem,
                     time |-> it.time, usec |-> it.usec, durationSec |-> it.durationSec,
                     bad |-> it.bad, link |-> it.link] IN
        /\ seen' = Append(seen, item)
        /\ IF ~item.hasItem
           THEN UNCHANGED <<pc, cur, exc>>
           ELSE IF Malformed(item)
           THEN ActionFails
           ELSE IF SkippedByType(message_type, item.rend)
           THEN UNCHANGED <<pc, cur, exc>>
           ELSE /\ cur' = item
                /\ pc' = IF item.link THEN "parse_link" ELSE "parse"
                /\ UNCHANGED exc
    /\ UNCHANGED <<argVars, stdout, twitchVars, unitVars, check_result, request, mainVars, attempt_ct, config,
                   continuation_by_title_map, is_live, continuation,
                   first_time, use_non_api_fallback, abort_cond_state, info,
                   retry_wait_secs, heartbeat, polls, clock, messages, delivered>>

\* __parse_message_runs, the try around the link of a run
ParseLink ==
    /\ EngineTurn /\ pc = "parse_link"
    /\ pc' = "parse"
    /\ UNCHANGED <<argVars, stdout, twitchVars, unitVars, mainVars, exc, loopVars, messages, delivered, seen>>

\* the rest of __parse_item, the two time tests and messages.append
ItemParse ==
    /\ EngineTurn /\ pc = "parse"
    /\ IF cur.bad
       THEN ActionFails /\ UNCHANGED messages
       ELSE LET data == ParseItem(cur) IN
            IF PastEndTime(end_time, data)
            THEN EngineReturns("end_time") /\ UNCHANGED <<cur, messages>>
            ELSE IF PassesStartTime(is_live, start_time, data)
            THEN /\ messages' = Append(messages, data)
                 /\ pc' = "deliver"
                 /\ UNCHANGED <<exc, cur>>
            ELSE NextAction /\ UNCHANGED <<exc, messages>>
    /\ UNCHANGED <<argVars, stdout, twitchVars, unitVars, check_result, request, mainVars, attempt_ct, config, continuation_by_title_map,
                   is_live, continuation,
                   first_time, use_non_api_fallback, abort_cond_state, info,
                   retry_wait_secs, heartbeat, polls, clock, delivered, seen>>

\* the sink: print_item when callback is None, callback(data) when it is callable;
\* a TypeError of the call becomes CallbackFunction, which except Exception drops.
\* main passes its own print_item or write_to_file as the callback.
\* variant: the branch on callback is missing
DeliversNothing(cb) == FALSE

Delivers(cb) == cb \in {"none", "callable", "print_item", "write_to_file"}

\* callback(data) raises: the TypeError of a callback of the wrong arity, which
\* becomes CallbackFunction, or an exception of the callback's own
CallbackFails(cb) == cb \in {"bad_arity", "raising"}

ItemDeliver ==
    /\ EngineTurn /\ pc = "deliver"
    /\ LET data == ParseItem(cur) IN
       /\ delivered' = IF Delivers(callback) THEN Append(delivered, data)
                       ELSE delivered
       /\ CASE callback \in {"none", "print_item"} ->
                  /\ stdout' = print_item(data, stdout)
                  /\ UNCHANGED file
            [] callback = "write_to_file" ->
                  LET w == write_to_file(data, file, stdout) IN
                  /\ file' = w.file
                  /\ stdout' = w.stdout
            [] OTHER -> UNCHANGED <<file, stdout>>
    /\ IF CallbackFails(callback) THEN ActionFails ELSE NextAction /\ UNCHANGED exc
    /\ UNCHANGED <<argVars, twitchVars, unitVars, check_result, request, routerVars,
                   called_finalize_output, fin, mainpc, sigLog, attempt_ct, config,
                   continuation_by_title_map, is_live, continuation,
                   first_time, use_non_api_fallback, abort_cond_state, info,
                   retry_wait_secs, heartbeat, polls, clock, messages, seen>>

\* after the actions: the two breaks, the new token, the wait the server asks for
\* what the answers hold as continuations[0]; the runs of SpecPolling are
\* offered the sub-keys without a token as well, and keep in info what the
\* engine has read
ContinuationsOffered(caller) ==
    IF caller = "polling" THEN Continuations \cup TokenlessContinuations
    ELSE Continuations

\* variant: a token is always taken from the sub-key
NextTokenAlways(c, token) == token + 1

\* if 'continuation' in continuation_info: continuation = ...; the tokens of
\* the answers are numbered on from the token of the watch page
NextToken(c, token) ==
    IF c.cont = "next" THEN token + 1 ELSE token

AdvanceContinuation ==
    /\ EngineTurn /\ pc = "p3_item"
    /\ IF ~info.hasActions /\ ~is_live
       THEN /\ EngineReturns("no_actions")
            /\ UNCHANGED <<continuation, first_time, info>>
       ELSE \E c \in ContinuationsOffered(mainpc) :
            IF c.cont = "none"
            THEN /\ EngineReturns("no_continuations")
                 /\ UNCHANGED <<continuation, first_time, info>>
            ELSE /\ continuation' = NextToken(c, continuation)
                 /\ info' = IF mainpc = "polling" THEN [NoInfo EXCEPT !.continuations = c]
                            ELSE NoInfo
                 /\ UNCHANGED exc
                 /\ IF c.timeoutMs
                    THEN pc' = "p3_sleep" /\ UNCHANGED first_time
                    ELSE pc' = "p3_check" /\ first_time' = FALSE
    /\ UNCHANGED <<argVars, stdout, twitchVars, unitVars, check_result, request, mainVars, attempt_ct, config, continuation_by_title_map,
                   is_live, use_non_api_fallback,
                   abort_cond_state, cur, retry_wait_secs, heartbeat, polls, clock, messages,
                   delivered, seen>>

\* time.sleep(timeoutMs/1000), then first_time = False
Phase3Sleep ==
    /\ EngineTurn /\ pc = "p3_sleep"
    /\ pc' = "p3_check"
    /\ first_time' = FALSE
    /\ UNCHANGED <<argVars, stdout, twitchVars, unitVars, check_result, request, mainVars, exc, attempt_ct, config,
                   continuation_by_title_map, is_live, continuation,
                   use_non_api_fallback, abort_cond_state, info, cur, retry_wait_secs, heartbeat,
                   polls, clock, messages, delivered, seen>>

\* the step of the polling loop a program position belongs to
StepOf(p) ==
    CASE p = "p3_fetch" -> "fetch"
      [] p = "p3_check" -> "check"
      [] OTHER -> p

\* an exception raised by a signal handler surfaces at the statement the engine
\* is at; the bare except around the link of a run drops it
EngineInterrupted(e) ==
    IF pc = "parse_link"
    THEN pc' = "parse" /\ UNCHANGED exc
    ELSE EngineEnds(e, StepOf(pc))

(***************************************************************************)
(* main: the signal policies, the handlers, the finalizer.                 *)
(***************************************************************************)
HostSignals == {"SIGINT", "SIGTERM", "SIGUSR1"}
DEFAULT_SIGNAL_ABORT_NAMES == {"SIGINT", "SIGBREAK", "SIGQUIT", "SIGTERM", "SIGABRT"}
SignalAbortType == {"default", "disable", "enable"}

\* abort_signals as main builds it: the default abort signals the host has
DefaultAbortSignals ==
    [s \in HostSignals \cap DEFAULT_SIGNAL_ABORT_NAMES |-> "default"]

\* variant: the elif on DEFAULT_SIGNAL_ABORT_NAMES is missing
RegisteredHandlerNoDefault(sig, type) ==
    IF sig = "SIGINT"
    THEN IF type = "disable" THEN "noop_handler" ELSE "orig"
    ELSE IF type = "disable" THEN "noop_handler"
    ELSE IF type = "enable" THEN "finalize_output"
    ELSE "orig"

\* variant: SIGINT never gets a handler
RegisteredHandlerSigintAsIs(sig, type) ==
    IF sig = "SIGINT" THEN "orig"
    ELSE IF type = "disable" THEN "noop_handler"
    ELSE IF type = "enable" THEN "finalize_output"
    ELSE IF sig \in DEFAULT_SIGNAL_ABORT_NAMES THEN "finalize_output"
    ELSE "orig"

\* the handler the registration loop leaves installed for a signal
RegisteredHandler(sig, type) ==
    IF sig = "SIGINT"
    THEN IF type = "disable" THEN "noop_handler" ELSE "orig"
    ELSE IF type = "disable" THEN "noop_handler"
    ELSE IF type = "enable" THEN "finalize_output"
    ELSE IF sig \in DEFAULT_SIGNAL_ABORT_NAMES THEN "finalize_output"
    ELSE "orig"

\* the handlers once the registration loop has run over abort_signals
RegisteredHandlers(policy) ==
    [s \in HostSignals |->
        IF s \in DOMAIN policy THEN RegisteredHandler(s, policy[s]) ELSE "orig"]

OrigHandlers == [s \in HostSignals |-> "orig"]

\* chat_messages and args.output, and the extension that selects a writer
WritesFile(out, msgs) ==
    Len(msgs) > 0 /\ out \in {"out.json", "out.csv"}

\* one activation of finalize_output; entry counts the activations of the run
Frame(signum, entry) ==
    [signum |-> signum, entry |-> entry, pc |-> "guard", pending |-> "none"]
\* the activations so far: one per signal routed to finalize_output, and main's
Entries ==
    Cardinality({i \in 1..Len(sigLog) : sigLog[i].msg = "Aborting"})
    + (IF mainpc \in {"finally", "exited", "exited_exc"} THEN 1 ELSE 0)
\* variant: the guard is missing
GuardNeverReturns(called) == FALSE

\* if called_finalize_output: return
GuardReturns(called) == called
Top == fin[Len(fin)]
Pop(stk) == SubSeq(stk, 1, Len(stk) - 1)
SetTop(stk, f) == [stk EXCEPT ![Len(stk)] = f]

\* an exception raised on top of the frames of finalize_output: a frame inside
\* its try goes to its finally clauses and keeps the exception pending, a frame
\* outside lets it through to the frame below
RECURSIVE Unwind(_, _)
Unwind(stk, e) ==
    IF Len(stk) = 0 THEN [fin |-> stk, e |-> e]
    ELSE LET f == stk[Len(stk)] IN
         IF f.pc \in {"open", "dump"}
         THEN [fin |-> SetTop(stk, [f EXCEPT !.pc = "restore", !.pending = e]), e |-> "none"]
         ELSE IF f.pc = "restore"
         THEN [fin |-> SetTop(stk, [f EXCEPT !.pc = "exit", !.pending = e]), e |-> "none"]
         ELSE Unwind(Pop(stk), e)

Alive == mainpc \in {"library", "call", "finally"}

\* an exception reaches the code below the handlers: the engine when it runs,
\* main's except clauses after it, the caller of main from the finally clause
BaseRaise(e) ==
    IF e = "none"
    THEN UNCHANGED <<pc, exc, mainpc>>
    ELSE IF Running /\ mainpc \in {"library", "call"}
    THEN EngineInterrupted(e) /\ UNCHANGED mainpc
    ELSE IF mainpc = "finally"
    THEN mainpc' = "exited_exc" /\ UNCHANGED <<pc, exc>>
    ELSE UNCHANGED <<pc, exc, mainpc>>

\* the operating system delivers a signal; the installed handler runs
Signal(sig) ==
    /\ Alive
    /\ mainpc = "library" => Running
    /\ sigCount < MaxSignals
    /\ sigCount' = sigCount + 1
    /\ CASE handlers[sig] = "finalize_output" ->
               /\ sigLog' = Append(sigLog, [sig |-> sig, msg |-> "Aborting"])
               /\ fin' = Append(fin, Frame(sig, Entries + 1))
               /\ UNCHANGED <<pc, exc, mainpc>>
         [] handlers[sig] = "noop_handler" ->
               /\ sigLog' = Append(sigLog, [sig |-> sig, msg |-> "Ignored"])
               /\ UNCHANGED <<pc, exc, mainpc, fin>>
         [] OTHER ->
               /\ sigLog' = Append(sigLog, [sig |-> sig, msg |-> "orig"])
               /\ IF sig = "SIGINT"
                  THEN LET u == Unwind(fin, "KeyboardInterrupt") IN
                       fin' = u.fin /\ BaseRaise(u.e)
                  ELSE mainpc' = "killed" /\ UNCHANGED <<pc, exc, fin>>
    /\ UNCHANGED <<argVars, stdout, twitchVars, unitVars, loopVars, messages, delivered, seen, output, abort_signals,
                   handlers, called_finalize_output, file, pending_signals>>

\* the call of get_chat_replay is over; main's except clauses, then finally
MainFinally ==
    /\ mainpc = "call" /\ ~Running /\ fin = <<>>
    /\ mainpc' = "finally"
    /\ fin' = <<Frame("None", Entries + 1)>>
    /\ UNCHANGED <<argVars, stdout, twitchVars, unitVars, engineVars, routerVars, called_finalize_output, file, sigLog>>

\* one step of the topmost frame of finalize_output
FinalizeOutput ==
    /\ Alive /\ fin # <<>>
    /\ LET f == Top IN
       CASE f.pc = "guard" ->
               /\ IF GuardReturns(called_finalize_output)
                  THEN /\ fin' = Pop(fin)
                       /\ mainpc' = IF Len(fin) = 1 /\ mainpc = "finally" THEN "exited"
                                    ELSE mainpc
                       /\ UNCHANGED called_finalize_output
                  ELSE /\ called_finalize_output' = TRUE
                       /\ fin' = SetTop(fin, [f EXCEPT !.pc = "open"])
                       /\ UNCHANGED mainpc
               /\ UNCHANGED <<file, handlers, pc, exc>>
         [] f.pc = "open" ->
               /\ IF WritesFile(output, messages)
                  THEN file' = [state |-> "partial", content |-> <<>>] /\ fin' = SetTop(fin, [f EXCEPT !.pc = "dump"])
                  ELSE UNCHANGED file /\ fin' = SetTop(fin, [f EXCEPT !.pc = "restore"])
               /\ UNCHANGED <<called_finalize_output, handlers, pc, exc, mainpc>>
         [] f.pc = "dump" ->
               /\ file' = [state |-> "written", content |-> messages]
               /\ fin' = SetTop(fin, [f EXCEPT !.pc = "restore"])
               /\ UNCHANGED <<called_finalize_output, handlers, pc, exc, mainpc>>
         [] f.pc = "restore" ->
               /\ handlers' = OrigHandlers
               /\ fin' = SetTop(fin, [f EXCEPT !.pc = "exit"])
               /\ UNCHANGED <<called_finalize_output, file, pc, exc, mainpc>>
         [] OTHER ->
               LET e == IF f.signum # "None" THEN "SystemExit" ELSE f.pending
                   u == Unwind(Pop(fin), e) IN
               /\ fin' = u.fin
               /\ IF e = "none" /\ Len(fin) = 1 /\ mainpc = "finally"
                  THEN mainpc' = "exited" /\ UNCHANGED <<pc, exc>>
                  ELSE BaseRaise(u.e)
               /\ UNCHANGED <<called_finalize_output, file, handlers>>
    /\ UNCHANGED <<argVars, stdout, twitchVars, unitVars, loopVars, messages, delivered, seen, output, abort_signals,
                   sigCount, sigLog, pending_signals>>

\* parse_abort_condition_group on SIGNAME:type: abort_signals[abort_signal] = type
ParseSignalCondition(policy, sig, type) ==
    [s \in DOMAIN policy \cup {sig} |-> IF s = sig THEN type ELSE policy[s]]

\* abort_signals after the signal conditions of the command line, in order
RECURSIVE ParseSignalConditions(_, _)
ParseSignalConditions(policy, conds) ==
    IF Len(conds) = 0 THEN policy
    ELSE ParseSignalConditions(ParseSignalCondition(policy, Head(conds).sig, Head(conds).type),
                               Tail(conds))

SignalConditions == [sig : HostSignals, type : SignalAbortType]
CommandLines ==
    UNION {[1..n -> SignalConditions] : n \in 0..MaxDirectives}

\* abort_signals.items(): the default abort signals first, then the named ones
SignalOrder == <<"SIGINT", "SIGTERM", "SIGUSR1">>
ItemsOf(policy) == SelectSeq(SignalOrder, LAMBDA s : s \in DOMAIN policy)

\* one iteration of the registration loop
RegisterHandler ==
    /\ mainpc = "register"
    /\ pending_signals # <<>>
    /\ LET sig == Head(pending_signals) IN
       handlers' = [handlers EXCEPT ![sig] = RegisteredHandler(sig, abort_signals[sig])]
    /\ pending_signals' = Tail(pending_signals)
    /\ UNCHANGED <<argVars, stdout, twitchVars, unitVars, engineVars, output, abort_signals, sigCount,
                   called_finalize_output, fin, mainpc, file, sigLog>>

(***************************************************************************)
(* Initial states and specifications.                                      *)
(***************************************************************************)
\* no response of the Twitch API has been read
NoTwitchInfo == [comments |-> <<>>, next |-> FALSE]

\* the locals of an engine before its first statement
InitLocals ==
    /\ cursor = 0
    /\ twitch_info = NoTwitchInfo
    /\ exc = NoExc
    /\ attempt_ct = 0
    /\ config = InitConfig
    /\ continuation_by_title_map = {}
    /\ is_live = FALSE
    /\ continuation = 0
    /\ first_time = TRUE
    /\ use_non_api_fallback = FALSE
    /\ abort_cond_state = InitAbortCondState
    /\ info = NoInfo
    /\ cur = NoItem
    /\ messages = <<>>
    /\ retry_wait_secs = 0
    /\ heartbeat = NoHeartbeat
    /\ check_result = NoCheck
    /\ request = NoRequest
    /\ delivered = <<>>
    /\ stdout = <<>>
    /\ seen = <<>>
    /\ polls = 0
    /\ clock = 0

InitEngine ==
    /\ pc = "p1_fetch"
    /\ InitLocals

\* parse_abort_condition_group is not running
InitParseIdle ==
    /\ raw_cond_group = ""
    /\ prev_pos = 1
    /\ raw_conds = <<>>
    /\ parse_error = ""

\* __get_youtube_json is not running
NoJson == [error |-> "absent", code |-> None, body |-> "none"]
InitJsonIdle ==
    /\ json_data = NoJson
    /\ json_result = [kind |-> "pending"]

\* __parse_item, __seconds_to_time and __time_to_seconds are not running
NoItemInfo == [fields |-> [k \in {} |-> ""], authorBadges |-> <<>>, showItemEndpoint |-> <<>>]
InitPureIdle ==
    /\ item_info = NoItemInfo
    /\ item_data = [kind |-> "pending"]
    /\ seconds = 0
    /\ time_text = "None"
    /\ round_trip = [kind |-> "pending"]

\* the functions that are modelled on their own are not running
InitUnitsIdle ==
    /\ fetch_fn = "none"
    /\ fetched = <<>>
    /\ fetch_result = [kind |-> "pending"]
    /\ post_payload = "None"
    /\ connection_read_timeout_try_ct = 0
    /\ session_last = [kind |-> "none"]
    /\ session_result = [kind |-> "pending"]
    /\ InitParseIdle
    /\ InitJsonIdle
    /\ InitPureIdle

InitMainIdle ==
    /\ called_finalize_output = FALSE
    /\ fin = <<>>
    /\ file = [state |-> "absent", content |-> <<>>]
    /\ sigLog = <<>>
    /\ sigCount = 0

AbortCondGroups ==
    {<<>>, << <<Cond("file_exists", 1)>> >>,
     << <<Cond("min_time_until_scheduled_start_time", 0)>> >>}

\* get_youtube_messages called by a program of its own: no handler is installed.
\* The arguments vary one group at a time: the filters, the chat type, the
\* sink, the abort conditions; the others keep their default.
Init ==
    /\ InitEngine
    /\ InitMainIdle
    /\ InitUnitsIdle
    /\ \/ /\ message_type \in MessageTypes
          /\ start_time \in {None, 1}
          /\ end_time \in {None, 1}
          /\ chat_type = "live"
          /\ callback = "none"
          /\ abort_cond_groups = <<>>
       \/ /\ message_type = "all"
          /\ start_time = None
          /\ end_time = None
          /\ \/ /\ chat_type = "top"
                /\ callback = "none"
                /\ abort_cond_groups = <<>>
             \/ /\ chat_type = "live"
                /\ callback \in {"callable", "bad_arity"}
                /\ abort_cond_groups = <<>>
             \/ /\ chat_type = "live"
                /\ callback = "none"
                /\ abort_cond_groups \in AbortCondGroups
    /\ mainpc = "library"
    /\ output = "none"
    /\ abort_signals = DefaultAbortSignals
    /\ handlers = OrigHandlers
    /\ pending_signals = <<>>

Engine ==
    \/ Phase1Attempt
    \/ Phase1AbortCheck
    \/ Phase1Sleep
    \/ Phase3AbortCheck
    \/ ContinuationFetch
    \/ ItemBegin
    \/ ParseLink
    \/ ItemParse
    \/ ItemDeliver
    \/ AdvanceContinuation
    \/ Phase3Sleep

Next ==
    \/ Engine
    \/ Signal("SIGINT")

Spec == Init /\ [][Next]_vars

\* get_youtube_messages called with its default arguments, on answers with
\* every kind of continuations
InitPolling ==
    /\ InitEngine
    /\ InitMainIdle
    /\ InitUnitsIdle
    /\ message_type = "messages"
    /\ start_time = None
    /\ end_time = None
    /\ chat_type = "live"
    /\ callback = "none"
    /\ abort_cond_groups = <<>>
    /\ mainpc = "polling"
    /\ output = "none"
    /\ abort_signals = DefaultAbortSignals
    /\ handlers = OrigHandlers
    /\ pending_signals = <<>>

NextPolling == Engine

SpecPolling == InitPolling /\ [][NextPolling]_vars

\* get_youtube_messages called with abort conditions on a video that may be
\* upcoming for a long time: the clock runs on for several heartbeat intervals
InitHeartbeat ==
    /\ InitEngine
    /\ InitMainIdle
    /\ InitUnitsIdle
    /\ message_type = "messages"
    /\ start_time = None
    /\ end_time = None
    /\ chat_type = "live"
    /\ callback = "none"
    /\ abort_cond_groups = << <<Cond("min_time_until_scheduled_start_time", 0)>> >>
    /\ mainpc = "heartbeats"
    /\ output = "none"
    /\ abort_signals = DefaultAbortSignals
    /\ handlers = OrigHandlers
    /\ pending_signals = <<>>

NextHeartbeat == Engine

\* get_youtube_messages on responses with actions that fail, with and without
\* a callback that fails
InitActions ==
    /\ InitEngine
    /\ InitMainIdle
    /\ InitUnitsIdle
    /\ message_type = "messages"
    /\ start_time = None
    /\ end_time = None
    /\ chat_type = "live"
    /\ callback \in {"none", "callable", "bad_arity", "raising"}
    /\ abort_cond_groups = <<>>
    /\ mainpc = "actions"
    /\ output = "none"
    /\ abort_signals = DefaultAbortSignals
    /\ handlers = OrigHandlers
    /\ pending_signals = <<>>

NextActions == Engine

SpecActions == InitActions /\ [][NextActions]_vars

SpecHeartbeat == InitHeartbeat /\ [][NextHeartbeat]_vars

MainPolicies ==
    {DefaultAbortSignals, ParseSignalCondition(DefaultAbortSignals, "SIGINT", "disable")}

\* open(args.output, 'w').close() when the output is neither .json nor .csv
SelectedFile(out, f) ==
    IF out \notin {"none", "out.json", "out.csv"}
    THEN [state |-> "emptied", content |-> <<>>]
    ELSE f

\* callback = None if args.output is None else print_item, and write_to_file
\* for a text file
SelectedCallback(out) ==
    IF out = "none" THEN "none"
    ELSE IF out \in {"out.json", "out.csv"} THEN "print_item"
    ELSE "write_to_file"

\* main chooses the sink of the run and empties a text file
SelectCallback ==
    /\ mainpc = "select_callback"
    /\ callback' = SelectedCallback(output)
    /\ file' = SelectedFile(output, file)
    /\ mainpc' = "call"
    /\ UNCHANGED <<message_type, start_time, end_time, chat_type, abort_cond_groups,
                   stdout, twitchVars, unitVars, engineVars, routerVars,
                   called_finalize_output, fin, sigLog>>

\* a text file an earlier run has left at the output path
OldFile == [state |-> "old", content |-> <<"[] author0: message0">>]

\* main after the registration loop, before it chooses the callback
InitMain ==
    /\ InitEngine
    /\ InitUnitsIdle
    /\ called_finalize_output = FALSE
    /\ fin = <<>>
    /\ sigLog = <<>>
    /\ sigCount = 0
    /\ message_type = "all"
    /\ start_time = None
    /\ end_time = None
    /\ chat_type = "live"
    /\ \/ /\ output = "out.json"
          /\ file = [state |-> "absent", content |-> <<>>]
          /\ abort_cond_groups = <<>>
          /\ abort_signals \in MainPolicies
       \/ /\ output = "out.csv"
          /\ file = [state |-> "absent", content |-> <<>>]
          /\ abort_cond_groups = <<>>
          /\ abort_signals = DefaultAbortSignals
       \/ /\ output = "out.txt"
          /\ file = OldFile
          /\ abort_cond_groups = <<>>
          /\ abort_signals = DefaultAbortSignals
       \/ /\ output = "none"
          /\ file = [state |-> "absent", content |-> <<>>]
          /\ abort_cond_groups \in {<<>>, << <<Cond("file_exists", 1)>> >>}
          /\ abort_signals = DefaultAbortSignals
    /\ callback = "none"
    /\ mainpc = "select_callback"
    /\ handlers = RegisteredHandlers(abort_signals)
    /\ pending_signals = <<>>

NextMain ==
    \/ SelectCallback
    \/ Engine
    \/ \E sig \in HostSignals : Signal(sig)
    \/ MainFinally
    \/ FinalizeOutput

SpecMain == InitMain /\ [][NextMain]_vars

\* main at the registration loop, for every command line of signal conditions
InitSignals ==
    /\ InitEngine
    /\ InitMainIdle
    /\ InitUnitsIdle
    /\ message_type = "all"
    /\ start_time = None
    /\ end_time = None
    /\ chat_type = "live"
    /\ output = "none"
    /\ callback = "none"
    /\ abort_cond_groups = <<>>
    /\ mainpc = "register"
    /\ \E conds \in CommandLines :
        abort_signals = ParseSignalConditions(DefaultAbortSignals, conds)
    /\ handlers = OrigHandlers
    /\ pending_signals = ItemsOf(abort_signals)

NextSignals == RegisterHandler

SpecSignals == InitSignals /\ [][NextSignals]_vars

(***************************************************************************)
(* AbortConditionChecker on its own.                                       *)
(***************************************************************************)
\* the predicates an option can name, with sample arguments
Conds == {Cond("file_exists", 1),
          Cond("min_time_until_scheduled_start_time", 0),
          Cond("min_time_until_scheduled_start_time", 1)}

\* the groups parse_abort_condition_group returns: no condition name twice;
\* a signal condition leaves its group empty
IsCondGroup(group) ==
    \A i, j \in 1..Len(group) : i # j => group[i].name # group[j].name
CondGroups ==
    {group \in UNION {[1..n -> Conds] : n \in 0..MaxConds} : IsCondGroup(group)}
\* args.abort_condition: one group per --abort_condition option
CondGroupLists == UNION {[1..n -> CondGroups] : n \in 0..MaxGroups}

\* the part of config the state function of the checker reads
CheckerConfigs ==
    [playability_status : {"OK", "LIVE_STREAM_OFFLINE"}, scheduled_start_time : SstValues]

\* AbortConditionChecker.check: the state function, then the groups in order
CheckerCheck ==
    /\ mainpc = "checker"
    /\ \E cfg \in CheckerConfigs, env \in Envs(0) :
        /\ abort_cond_state' = NochatAbortCondStateUpdater(abort_cond_state, cfg)
        /\ check_result' = Checked(env, CheckCondGroups(abort_cond_groups,
                                                        abort_cond_state', env))
    /\ UNCHANGED <<argVars, stdout, twitchVars, unitVars, request, mainVars, pc, exc, attempt_ct, config,
                   continuation_by_title_map, is_live, continuation, first_time,
                   use_non_api_fallback, info, cur, retry_wait_secs, heartbeat, polls, clock,
                   messages, delivered, seen>>

InitAbort ==
    /\ InitEngine
    /\ InitMainIdle
    /\ InitUnitsIdle
    /\ message_type = "all"
    /\ start_time = None
    /\ end_time = None
    /\ chat_type = "live"
    /\ output = "none"
    /\ callback = "none"
    /\ abort_cond_groups \in CondGroupLists
    /\ mainpc = "checker"
    /\ abort_signals = DefaultAbortSignals
    /\ handlers = OrigHandlers
    /\ pending_signals = <<>>

NextAbort == CheckerCheck

SpecAbort == InitAbort /\ [][NextAbort]_vars

\* the messages of the predicates of a group on the state of the last check
MessagesOf(group) ==
    [i \in 1..Len(group) |-> CondFunc(group[i], abort_cond_state, check_result.env)]
AllTruthy(group) == \A i \in 1..Len(group) : MessagesOf(group)[i] # Falsy

\* C12, as stated: check raises AbortConditionsSatisfied if and only if at
\* least one group has all of its predicates returning a truthy message on the
\* current state; the exception carries the messages of the first such group
\* in option order, joined with ' AND '.
C12_RaisesIffSomeGroupAllTruthy ==
    check_result.called =>
        LET hits == {g \in 1..Len(abort_cond_groups) : AllTruthy(abort_cond_groups[g])} IN
        /\ (check_result.raised # Falsy) <=> (hits # {})
        /\ hits # {} =>
            LET first == CHOOSE g \in hits : \A h \in hits : g <= h IN
            check_result.raised = JoinAnd(MessagesOf(abort_cond_groups[first]))

\* C12, amended: check raises AbortConditionsSatisfied if and only if at least
\* one group has a predicate and has all of its predicates returning a truthy
\* message on the current state; a group without predicates (the group of a
\* signal condition) never makes it raise.  The exception carries the
\* messages of the first such group in option order, joined with ' AND '.
C12_RaisesIffSomeNonEmptyGroupAllTruthy ==
    check_result.called =>
        LET hits == {g \in 1..Len(abort_cond_groups) :
                        /\ Len(abort_cond_groups[g]) > 0
                        /\ AllTruthy(abort_cond_groups[g])} IN
        /\ (check_result.raised # Falsy) <=> (hits # {})
        /\ hits # {} =>
            LET first == CHOOSE g \in hits : \A h \in hits : g <= h IN
            check_result.raised = JoinAnd(MessagesOf(abort_cond_groups[first]))

C12_Witness ==
    /\ mainpc = "checker"
    /\ abort_cond_groups =
        << <<Cond("min_time_until_scheduled_start_time", 1)>>,
           <<Cond("file_exists", 1), Cond("min_time_until_scheduled_start_time", 0)>> >>
    /\ check_result.called
    /\ check_result.raised = "file 1 exists AND 1 secs >= 0 secs"

(***************************************************************************)
(* The functions that read an HTML page: __get_initial_youtube_info,       *)
(* __get_fallback_continuation_info, __get_fallback_playability_info.      *)
(***************************************************************************)
HtmlFunctions == {"get_initial_youtube_info", "get_fallback_continuation_info",
                  "get_fallback_playability_info"}

\* what the JSON of a page that parses holds for the function that reads it
PageData(fn) ==
    CASE fn = "get_initial_youtube_info" ->
            {[kind |-> "no_contents"]} \cup {page \in WatchPages : page.kind = "ok"}
      [] fn = "get_fallback_continuation_info" ->
            {[kind |-> "none"]} \cup {[kind |-> "info", info |-> i] : i \in Infos}
      [] OTHER ->
            {[kind |-> "ok", playability_status |-> "LIVE_STREAM_OFFLINE",
              scheduled_start_time |-> t] : t \in SstValues}

\* a page: whether the regexes of __parse_video_text match it, whether it holds
\* the text window.ERROR_PAGE, and its data when they match
HtmlPages(fn) ==
    {[parses |-> FALSE, error_page |-> e, data |-> [kind |-> "unparsed"]] : e \in BOOLEAN}
    \cup {[parses |-> TRUE, error_page |-> e, data |-> d] :
            e \in BOOLEAN, d \in PageData(fn)}

\* the try block of the function on one page: what it returns or raises
ParseHtml(fn, html) ==
    IF ~html.parses THEN [kind |-> "ParsingError"]
    ELSE IF html.data.kind = "no_contents" THEN [kind |-> "VideoUnavailable"]
    ELSE IF html.data.kind = "none" THEN [kind |-> "NoContinuation"]
    ELSE html.data

\* variant: the text window.ERROR_PAGE is not looked for
RefetchesNever(html) == FALSE

\* except ParsingError: if "window.ERROR_PAGE" in html
Refetches(html) ==
    ~html.parses /\ html.error_page

\* one activation of the function: the GET, the try block, and on an error
\* page the recursive call, whose activation is the next step
HtmlFetch ==
    /\ mainpc = "html"
    /\ fetch_result.kind = "pending"
    /\ Len(fetched) < MaxFetches
    /\ \E html \in HtmlPages(fetch_fn) :
        /\ fetched' = Append(fetched, html)
        /\ fetch_result' = IF Refetches(html) THEN fetch_result
                           ELSE ParseHtml(fetch_fn, html)
    /\ UNCHANGED <<argVars, stdout, twitchVars, engineVars, mainVars, fetch_fn, post_payload,
                   connection_read_timeout_try_ct, session_last, session_result, parseVars,
                   jsonVars, pureVars>>

\* the engine and main at rest, while a function is run on its own
InitProgramIdle ==
    /\ InitEngine
    /\ InitMainIdle
    /\ message_type = "all"
    /\ start_time = None
    /\ end_time = None
    /\ chat_type = "live"
    /\ callback = "none"
    /\ abort_cond_groups = <<>>
    /\ output = "none"
    /\ abort_signals = DefaultAbortSignals
    /\ handlers = OrigHandlers
    /\ pending_signals = <<>>

InitHtml ==
    /\ InitProgramIdle
    /\ mainpc = "html"
    /\ fetch_fn \in HtmlFunctions
    /\ fetched = <<>>
    /\ fetch_result = [kind |-> "pending"]
    /\ post_payload = "None"
    /\ connection_read_timeout_try_ct = 0
    /\ session_last = [kind |-> "none"]
    /\ session_result = [kind |-> "pending"]
    /\ InitParseIdle
    /\ InitJsonIdle
    /\ InitPureIdle

NextHtml == HtmlFetch

SpecHtml == InitHtml /\ [][NextHtml]_vars

\* a page that does not parse and holds window.ERROR_PAGE
IsErrorPage(html) == ~html.parses /\ html.error_page

\* C14: one logical fetch of an HTML page issues at most one request more than
\* the first, whatever pages the server returns.
C14_AtMostOneRefetch ==
    Len(fetched) <= 2

\* C15: when the first watch-page response holds window.ERROR_PAGE and does
\* not parse, the page is fetched again; when the second response is a normal
\* page, the call ends there, after exactly one re-fetch, and returns the
\* config and the continuation-by-title map of that page, those of a run
\* whose first response was that page.
C15_RefetchYieldsNormalPage ==
    (fetch_fn = "get_initial_youtube_info" /\ Len(fetched) >= 1
        /\ IsErrorPage(fetched[1])) =>
        /\ Len(fetched) = 1 => fetch_result.kind = "pending"
        /\ (Len(fetched) >= 2 /\ fetched[2].parses /\ fetched[2].data.kind = "ok") =>
            /\ Len(fetched) = 2
            /\ fetch_result = [kind |-> "ok", titles |-> fetched[2].data.titles,
                                video |-> fetched[2].data.video]
            /\ \A html \in HtmlPages(fetch_fn) :
                    html.data = fetched[2].data => ParseHtml(fetch_fn, html) = fetch_result

C15_Witness ==
    /\ fetch_fn = "get_initial_youtube_info"
    /\ Len(fetched) = 2
    /\ IsErrorPage(fetched[1])
    /\ fetched[2] = [parses |-> TRUE, error_page |-> FALSE,
                      data |-> [kind |-> "ok", titles |-> {"Live chat"}, video |-> VideoLive]]
    /\ fetch_result = [kind |-> "ok", titles |-> {"Live chat"}, video |-> VideoLive]

(***************************************************************************)
(* __session_get: the outer retry on read timeouts.                        *)
(***************************************************************************)
\* what session.get or session.post ends with: a response, or an exception
\* with its class and its text
SessionOutcomes ==
    {[kind |-> "response", status |-> s] : s \in {200, 404}}
    \cup {[kind |-> "ConnectionError", text |-> t] :
            t \in {"HTTPSConnectionPool(host='www.youtube.com', port=443): Read timed out.",
                   "Read timed out. (read timeout=10)",
                   "Connection aborted."}}
    \cup {[kind |-> "ChunkedEncodingError", text |-> "Read timed out."]}

\* str.endswith
EndsWith(str, suffix) ==
    /\ Len(str) >= Len(suffix)
    /\ SubSeq(str, Len(str) - Len(suffix) + 1, Len(str)) = suffix

\* variant: the text of the error is not looked at
RetriesOnAnyConnectionError(e, try_ct) ==
    e.kind = "ConnectionError" /\ try_ct <= MAX_RETRIES

\* except ConnectionError as e: if str(e).endswith('Read timed out.') and
\* connection_read_timeout_try_ct <= self.__MAX_RETRIES
RetriesReadTimeout(e, try_ct) ==
    e.kind = "ConnectionError" /\ EndsWith(e.text, "Read timed out.")
        /\ try_ct <= MAX_RETRIES

\* one iteration of the while True of __session_get
SessionGet ==
    /\ mainpc = "session_get"
    /\ session_result.kind = "pending"
    /\ \E outcome \in SessionOutcomes :
        /\ session_last' = outcome
        /\ IF outcome.kind = "response"
           THEN /\ session_result' = outcome
                /\ UNCHANGED connection_read_timeout_try_ct
           ELSE IF RetriesReadTimeout(outcome, connection_read_timeout_try_ct)
           THEN /\ connection_read_timeout_try_ct' = connection_read_timeout_try_ct + 1
                /\ UNCHANGED session_result
           ELSE /\ session_result' = [kind |-> "raised", e |-> outcome]
                /\ UNCHANGED connection_read_timeout_try_ct
    /\ UNCHANGED <<argVars, stdout, twitchVars, engineVars, mainVars, fetch_fn, fetched, fetch_result,
                   post_payload, parseVars, jsonVars, pureVars>>

InitSession ==
    /\ InitProgramIdle
    /\ mainpc = "session_get"
    /\ fetch_fn = "none"
    /\ fetched = <<>>
    /\ fetch_result = [kind |-> "pending"]
    /\ post_payload \in {"None", "payload"}
    /\ connection_read_timeout_try_ct = 1
    /\ session_last = [kind |-> "none"]
    /\ session_result = [kind |-> "pending"]
    /\ InitParseIdle
    /\ InitJsonIdle
    /\ InitPureIdle

NextSession == SessionGet

\* every request ends: session.get and session.post are given a timeout
SpecSession == InitSession /\ [][NextSession]_vars /\ WF_vars(SessionGet)

\* the error of the last request is a connection error whose text ends with
\* 'Read timed out.'
ReadTimedOut(e) ==
    /\ e.kind = "ConnectionError"
    /\ e.text \in {"HTTPSConnectionPool(host='www.youtube.com', port=443): Read timed out."}

\* C16: the outer retry layer retries a request only when the connection
\* error's text ends with 'Read timed out.' and the try counter is <= 10; any
\* other error, and a read timeout after the cap, leaves the call; a call
\* makes at most 10 retries and always ends, with a response or an error.
C16_OuterRetryBounded ==
    /\ [][(session_result.kind = "pending"
            /\ <<session_result, connection_read_timeout_try_ct>>'
                    # <<session_result, connection_read_timeout_try_ct>>) =>
            IF session_last'.kind = "response"
            THEN session_result' = session_last'
            ELSE IF ReadTimedOut(session_last') /\ connection_read_timeout_try_ct <= 10
            THEN /\ session_result'.kind = "pending"
                 /\ connection_read_timeout_try_ct' = connection_read_timeout_try_ct + 1
            ELSE /\ session_result' = [kind |-> "raised", e |-> session_last']
                 /\ UNCHANGED connection_read_timeout_try_ct]_vars
    /\ [](connection_read_timeout_try_ct - 1 <= 10)
    /\ <>(session_result.kind \in {"response", "raised"})

C16_Witness ==
    /\ mainpc = "session_get"
    /\ connection_read_timeout_try_ct = 11
    /\ session_result.kind = "raised"
    /\ ReadTimedOut(session_result.e)

(***************************************************************************)
(* The --abort_condition option: _tokenize_abort_condition_group and        *)
(* parse_abort_condition_group, then the predicates the parser has built.   *)
(***************************************************************************)
\* the strings of n characters over an alphabet
RECURSIVE StringsOfLen(_, _)
StringsOfLen(chars, n) ==
    IF n = 0 THEN {""}
    ELSE {str \o c : str \in StringsOfLen(chars, n - 1), c \in chars}

\* the positions where group 1 of _ABORT_CONDITION_TOKEN_REGEX, (?:\\.|[^&\\])*,
\* can end when it starts at p: after any number of units, a unit being a
\* backslash with the character after it, or a character other than & and
\* backslash
RECURSIVE Group1Ends(_, _)
Group1Ends(str, p) ==
    {p} \cup
    (IF p > Len(str) THEN {}
     ELSE IF Char(str, p) = "\\"
     THEN (IF p + 1 <= Len(str) THEN Group1Ends(str, p + 2) ELSE {})
     ELSE IF Char(str, p) = "&" THEN {}
     ELSE Group1Ends(str, p + 1))

NoMatch == [start |-> 0, end |-> 0, g1 |-> "", g2 |-> ""]

\* the match of the regex at p: group 1 as long as it can be with & or the end
\* of the string after it as group 2
TokenMatchAt(str, p) ==
    LET ends == {e \in Group1Ends(str, p) : e > Len(str) \/ Char(str, e) = "&"} IN
    IF ends = {} THEN NoMatch
    ELSE LET e == CHOOSE x \in ends : \A y \in ends : y <= x IN
         [start |-> p,
          end |-> IF e > Len(str) THEN e ELSE e + 1,
          g1 |-> SubSeq(str, p, e - 1),
          g2 |-> IF e > Len(str) THEN "" ELSE "&"]

\* finditer: the first match at or after pos
RECURSIVE NextTokenMatch(_, _)
NextTokenMatch(str, pos) ==
    IF pos > Len(str) + 1 THEN NoMatch
    ELSE LET m == TokenMatchAt(str, pos) IN
         IF m.start # 0 THEN m ELSE NextTokenMatch(str, pos + 1)

\* str.replace(old, new): the occurrences from left to right, without overlap
RECURSIVE Replace(_, _, _)
Replace(str, old, new) ==
    IF Len(str) < Len(old) THEN str
    ELSE IF SubSeq(str, 1, Len(old)) = old
    THEN new \o Replace(SubSeq(str, Len(old) + 1, Len(str)), old, new)
    ELSE Char(str, 1) \o Replace(SubSeq(str, 2, Len(str)), old, new)

\* variant: the backslashes are left as they are
UnescapeNothing(raw_cond) == raw_cond

\* raw_cond.replace('\\&', '&').replace('\\\\', '\\')
Unescape(raw_cond) ==
    Replace(Replace(raw_cond, "\\&", "&"), "\\\\", "\\")

\* one iteration of the for loop over finditer, the break included; after the
\* last token parse_abort_condition_group goes on with the list
TokenizeStep ==
    /\ mainpc = "tokenize"
    /\ parse_error = ""
    /\ LET m == NextTokenMatch(raw_cond_group, prev_pos) IN
       IF prev_pos # m.start
       THEN /\ parse_error' = "invalid string (unexpected end of string)"
            /\ UNCHANGED <<prev_pos, raw_conds, mainpc>>
       ELSE IF Len(m.g1) = 0
       THEN /\ parse_error' = "condition cannot be empty"
            /\ UNCHANGED <<prev_pos, raw_conds, mainpc>>
       ELSE /\ raw_conds' = Append(raw_conds, Unescape(m.g1))
            /\ prev_pos' = m.end
            /\ mainpc' = IF Len(m.g2) = 0 THEN "parse" ELSE mainpc
            /\ UNCHANGED parse_error
    /\ UNCHANGED <<argVars, stdout, twitchVars, engineVars, routerVars,
                   called_finalize_output, fin, file, sigLog,
                   fetch_fn, fetched, fetch_result, post_payload,
                   connection_read_timeout_try_ct, session_last, session_result,
                   raw_cond_group, jsonVars, pureVars>>

\* str.strip() on blanks
RECURSIVE LStrip(_)
LStrip(str) ==
    IF Len(str) > 0 /\ Char(str, 1) = " " THEN LStrip(SubSeq(str, 2, Len(str))) ELSE str
RECURSIVE RStrip(_)
RStrip(str) ==
    IF Len(str) > 0 /\ Char(str, Len(str)) = " "
    THEN RStrip(SubSeq(str, 1, Len(str) - 1)) ELSE str
Strip(str) == RStrip(LStrip(str))

\* str.find(c) counted from 1, 0 when c is not in str
Find(str, c) ==
    IF \E i \in 1..Len(str) : Char(str, i) = c
    THEN CHOOSE i \in 1..Len(str) :
            Char(str, i) = c /\ \A j \in 1..(i - 1) : Char(str, j) # c
    ELSE 0

\* raw_cond.split(':', 1) if ':' in raw_cond else (raw_cond, None)
SplitCond(raw_cond) ==
    LET i == Find(raw_cond, ":") IN
    IF i = 0 THEN [cond_name |-> raw_cond, has_arg |-> FALSE, cond_arg |-> "None"]
    ELSE [cond_name |-> SubSeq(raw_cond, 1, i - 1), has_arg |-> TRUE,
          cond_arg |-> SubSeq(raw_cond, i + 1, Len(raw_cond))]

Digits == <<"0", "1", "2", "3", "4", "5", "6", "7", "8", "9">>
DigitValue(c) == (CHOOSE i \in 1..10 : Digits[i] = c) - 1
\* \d+
IsDigits(str) ==
    Len(str) > 0 /\ \A i \in 1..Len(str) : \E d \in 1..10 : Digits[d] = Char(str, i)
\* int(str) of a string of digits
RECURSIVE Int10(_)
Int10(str) ==
    IF Len(str) = 0 THEN 0
    ELSE 10 * Int10(SubSeq(str, 1, Len(str) - 1)) + DigitValue(Char(str, Len(str)))

\* re.fullmatch(r'(\d+):(\d+)$', cond_arg)
HoursMinutesMatch(cond_arg) ==
    LET i == Find(cond_arg, ":") IN
    IF i # 0 /\ IsDigits(SubSeq(cond_arg, 1, i - 1))
             /\ IsDigits(SubSeq(cond_arg, i + 1, Len(cond_arg)))
    THEN [matched |-> TRUE, m1 |-> SubSeq(cond_arg, 1, i - 1),
          m2 |-> SubSeq(cond_arg, i + 1, Len(cond_arg))]
    ELSE [matched |-> FALSE, m1 |-> "", m2 |-> ""]

\* variant: the minutes are counted as seconds
MinSecsNoMinutes(m1, m2) == Int10(m1) * 3600 + Int10(m2)

\* min_secs = int(m[1]) * 3600 + int(m[2]) * 60
MinSecs(m1, m2) ==
    Int10(m1) * 3600 + Int10(m2) * 60

\* the result of the branches that add a predicate or raise
Parsed(cond) == [error |-> "", conds |-> <<cond>>]
ParseRaises(message) == [error |-> message, conds |-> <<>>]

\* the branch of changed_scheduled_start_time; a condition without ':' has
\* None as cond_arg, which has no startswith
ChangedCondition(c) ==
    IF ~c.has_arg THEN ParseRaises("AttributeError")
    ELSE LET plus == StartsWith(c.cond_arg, "+")
             minus == StartsWith(c.cond_arg, "-")
             datetime_format == IF plus \/ minus
                                THEN SubSeq(c.cond_arg, 2, Len(c.cond_arg))
                                ELSE c.cond_arg
             change_type == IF plus THEN "increased"
                            ELSE IF minus THEN "decreased" ELSE "changed"
         IN IF ~ValidFormat(datetime_format) THEN ParseRaises("bad directive in format")
            ELSE Parsed(Cond(c.cond_name, [change_type |-> change_type,
                                           datetime_format |-> datetime_format]))

\* the branch of min_time_until_scheduled_start_time; re.fullmatch does not
\* take None
MinTimeCondition(c) ==
    IF ~c.has_arg THEN ParseRaises("TypeError")
    ELSE LET m == HoursMinutesMatch(c.cond_arg) IN
         IF ~m.matched
         THEN ParseRaises(c.cond_name
                    \o " argument must be in format <hours>:<minutes>, e.g. 01:30")
         ELSE Parsed(Cond(c.cond_name, MinSecs(m.m1, m.m2)))

\* variant: the policy is stored before the group is looked at
SignalConditionStoresFirst(c, n_raw_conds, policy) ==
    IF c.cond_name \notin HostSignals
    THEN [error |-> "unrecognized signal name: " \o c.cond_name, abort_signals |-> policy]
    ELSE IF n_raw_conds > 1
    THEN [error |-> "signal condition must be only condition in the option argument",
          abort_signals |-> ParseSignalCondition(policy, c.cond_name, c.cond_arg)]
    ELSE IF ~c.has_arg \/ c.cond_arg \notin SignalAbortType
    THEN [error |-> "signal condition argument must be one of: default, disable, enable",
          abort_signals |-> policy]
    ELSE [error |-> "", abort_signals |-> ParseSignalCondition(policy, c.cond_name, c.cond_arg)]

\* the branch of the signal conditions: getattr(signal, cond_name), the test
\* on len(raw_conds), SignalAbortType[cond_arg], then the assignment
SignalCondition(c, n_raw_conds, policy) ==
    IF c.cond_name \notin HostSignals
    THEN [error |-> "unrecognized signal name: " \o c.cond_name, abort_signals |-> policy]
    ELSE IF n_raw_conds > 1
    THEN [error |-> "signal condition must be only condition in the option argument",
          abort_signals |-> policy]
    ELSE IF ~c.has_arg \/ c.cond_arg \notin SignalAbortType
    THEN [error |-> "signal condition argument must be one of: default, disable, enable",
          abort_signals |-> policy]
    ELSE [error |-> "", abort_signals |-> ParseSignalCondition(policy, c.cond_name, c.cond_arg)]

\* one iteration of the loop over raw_conds; acc holds cond_group,
\* cond_name_dict and abort_signals as the iterations before have left them
ParseCond(untrimmed, n_raw_conds, acc) ==
    LET c == SplitCond(Strip(untrimmed)) IN
    IF c.cond_name \in acc.cond_name_dict
    THEN [acc EXCEPT !.error = "multiple " \o c.cond_name
                                \o " conditions cannot exist within in the option argument"]
    ELSE LET seen_acc == [acc EXCEPT !.cond_name_dict = @ \cup {c.cond_name}] IN
         IF c.cond_name \in {"changed_scheduled_start_time",
                             "min_time_until_scheduled_start_time"}
         THEN LET r == IF c.cond_name = "changed_scheduled_start_time"
                       THEN ChangedCondition(c) ELSE MinTimeCondition(c) IN
              [seen_acc EXCEPT !.error = r.error, !.cond_group = @ \o r.conds]
         ELSE IF c.cond_name = "file_exists"
         THEN [seen_acc EXCEPT !.cond_group = Append(@, Cond(c.cond_name, c.cond_arg))]
         ELSE IF StartsWith(c.cond_name, "SIG")
         THEN LET r == SignalCondition(c, n_raw_conds, acc.abort_signals) IN
              [seen_acc EXCEPT !.error = r.error, !.abort_signals = r.abort_signals]
         ELSE [seen_acc EXCEPT !.error = "unrecognized condition: " \o Strip(untrimmed)]

\* the loop of parse_abort_condition_group from raw_conds[i] on, up to the
\* first raise
RECURSIVE ParseConds(_, _, _)
ParseConds(conds, i, acc) ==
    IF i > Len(conds) \/ acc.error # "" THEN acc
    ELSE ParseConds(conds, i + 1, ParseCond(conds[i], Len(conds), acc))

\* parse_abort_condition_group after the tokenizer, as the type of the
\* --abort_condition option: the group it returns is appended to
\* args.abort_condition, its signal condition is stored in abort_signals
ParseAbortConditionGroup ==
    /\ mainpc = "parse"
    /\ parse_error = ""
    /\ LET r == ParseConds(raw_conds, 1,
                           [error |-> "", cond_group |-> <<>>, cond_name_dict |-> {},
                            abort_signals |-> abort_signals]) IN
       /\ parse_error' = r.error
       /\ abort_signals' = r.abort_signals
       /\ IF r.error = ""
          THEN /\ abort_cond_groups' = Append(abort_cond_groups, r.cond_group)
               /\ mainpc' = "parsed"
          ELSE UNCHANGED <<abort_cond_groups, mainpc>>
    /\ UNCHANGED <<message_type, start_time, end_time, chat_type, callback,
                   stdout, twitchVars, engineVars,
                   output, handlers, sigCount, pending_signals,
                   called_finalize_output, fin, file, sigLog,
                   fetch_fn, fetched, fetch_result, post_payload,
                   connection_read_timeout_try_ct, session_last, session_result,
                   raw_cond_group, prev_pos, raw_conds, jsonVars, pureVars>>

\* the times of the scheduled start and of the clock the parsed predicates are
\* run on, in seconds
SstSamples == {None, 60, 3600, 3660, 5400, 7200}
NowSamples == {0, 60}

\* AbortConditionChecker.check on the groups of the command line
ParsedCheck ==
    /\ mainpc = "parsed"
    /\ \E sst \in SstSamples, now \in NowSamples, exists \in BOOLEAN :
        LET cfg == [playability_status |-> "OK", scheduled_start_time |-> sst]
            env == [fileExists |-> exists, now |-> now] IN
        /\ abort_cond_state' = NochatAbortCondStateUpdater(abort_cond_state, cfg)
        /\ check_result' = Checked(env, CheckCondGroups(abort_cond_groups,
                                                        abort_cond_state', env))
    /\ UNCHANGED <<argVars, stdout, twitchVars, unitVars, request, mainVars, pc, exc,
                   attempt_ct, config, continuation_by_title_map, is_live, continuation,
                   first_time, use_non_api_fallback, info, cur, retry_wait_secs, heartbeat, polls,
                   clock, messages, delivered, seen>>

\* the option arguments the tokenizer is run on: every string of a predicate
\* character, the separator and the backslash
TokenizerSamples == UNION {StringsOfLen({"a", "&", "\\"}, n) : n \in 0..MaxLen}

HourSamples == {0, 1}
MinuteSamples == {0, 1, 30}
FormatSamples == {"%H", "%M", "%H:%M"}
PrefixSamples == {"", "+", "-"}

\* min_time_until_scheduled_start_time:<HH>:<MM>
MinTimeOption(hh, mm) ==
    "min_time_until_scheduled_start_time:" \o Pad2(hh) \o ":" \o Pad2(mm)
\* changed_scheduled_start_time:[+|-]<strftime>
ChangedOption(prefix, fmt) ==
    "changed_scheduled_start_time:" \o prefix \o fmt

\* the option arguments the parser is run on
OptionSamples ==
    {"SIGINT:disable", "SIGUSR1:enable", "SIGTERM:default", " SIGINT:enable ",
     "SIGFOO:enable", "SIGINT:bogus", "SIGINT",
     "SIGINT:disable&file_exists:f", "file_exists:f&SIGUSR1:enable",
     "SIGUSR1:enable&SIGUSR1:disable",
     "file_exists:f", "file_exists:a\\&b", "file_exists:f&file_exists:g",
     "min_time_until_scheduled_start_time:1:5",
     "min_time_until_scheduled_start_time:0130",
     "min_time_until_scheduled_start_time",
     "changed_scheduled_start_time:%Q", "changed_scheduled_start_time",
     "changed_scheduled_start_time:+%H & min_time_until_scheduled_start_time:00:01",
     "file_exists:f&min_time_until_scheduled_start_time:01:00"}
    \cup {MinTimeOption(hh, mm) : hh \in HourSamples, mm \in MinuteSamples}
    \cup {ChangedOption(prefix, fmt) : prefix \in PrefixSamples, fmt \in FormatSamples}

InitParse ==
    /\ InitProgramIdle
    /\ mainpc = "tokenize"
    /\ fetch_fn = "none"
    /\ fetched = <<>>
    /\ fetch_result = [kind |-> "pending"]
    /\ post_payload = "None"
    /\ connection_read_timeout_try_ct = 0
    /\ session_last = [kind |-> "none"]
    /\ session_result = [kind |-> "pending"]
    /\ raw_cond_group \in TokenizerSamples \cup OptionSamples
    /\ prev_pos = 1
    /\ raw_conds = <<>>
    /\ parse_error = ""
    /\ InitJsonIdle
    /\ InitPureIdle

NextParse ==
    \/ TokenizeStep
    \/ ParseAbortConditionGroup
    \/ ParsedCheck

SpecParse == InitParse /\ [][NextParse]_vars

(***************************************************************************)
(* Properties of the --abort_condition option, checked under SpecParse.    *)
(***************************************************************************)
\* the number of backslashes right before str[i]
RECURSIVE BackslashesBefore(_, _)
BackslashesBefore(str, i) ==
    IF i > 1 /\ Char(str, i - 1) = "\\" THEN 1 + BackslashesBefore(str, i - 1) ELSE 0

\* the & of str that are not escaped
UnescapedSeparators(str) ==
    {i \in 1..Len(str) : Char(str, i) = "&" /\ BackslashesBefore(str, i) % 2 = 0}

\* the n-th position of a set of positions
NthPosition(positions, n) ==
    CHOOSE j \in positions : Cardinality({x \in positions : x < j}) = n - 1

\* the k-th part of str when it is cut at its unescaped &
RawPredicate(str, k) ==
    LET seps == UnescapedSeparators(str) IN
    SubSeq(str,
           IF k = 1 THEN 1 ELSE NthPosition(seps, k - 1) + 1,
           IF k > Cardinality(seps) THEN Len(str) ELSE NthPosition(seps, k) - 1)

\* the backslashes of a predicate that escape an & or a backslash
EscapingBackslashes(raw) ==
    {j \in 1..(Len(raw) - 1) :
        /\ Char(raw, j) = "\\"
        /\ BackslashesBefore(raw, j) % 2 = 0
        /\ Char(raw, j + 1) \in {"&", "\\"}}

\* cond is raw with \& read as & and \\ as a backslash
ReadsAs(raw, cond) ==
    LET kept == (1..Len(raw)) \ EscapingBackslashes(raw) IN
    /\ Len(cond) = Cardinality(kept)
    /\ \A n \in 1..Len(cond) : Char(cond, n) = Char(raw, NthPosition(kept, n))

\* a valid group string: no unpaired backslash at its end, no empty predicate
ValidGroupString(str) ==
    /\ BackslashesBefore(str, Len(str) + 1) % 2 = 0
    /\ \A k \in 1..(Cardinality(UnescapedSeparators(str)) + 1) : RawPredicate(str, k) # ""

TokenizerErrors ==
    {"invalid string (unexpected end of string)", "condition cannot be empty"}

SignalDirectives ==
    {k \in 1..Len(raw_conds) : StartsWith(Strip(raw_conds[k]), "SIG")}

\* <signal_name>:{default|enable|disable}
IsDirective(raw_cond, sig, type) == Strip(raw_cond) = sig \o ":" \o type

\* abort_signals is policy with the type of sig replaced
Installed(policy, sig, type) ==
    /\ DOMAIN abort_signals = DOMAIN policy \cup {sig}
    /\ abort_signals[sig] = type
    /\ \A other \in DOMAIN policy \ {sig} : abort_signals[other] = policy[other]

\* C23: a signal directive is accepted only as the one predicate of its
\* group; an accepted directive stores its policy in abort_signals and leaves
\* the group empty, so that the checker never raises on it; a rejected group
\* leaves abort_signals as it was.
C23_SignalDirectiveIsSoleEntry ==
    /\ mainpc = "parsed" /\ SignalDirectives # {} =>
        /\ Len(raw_conds) = 1
        /\ \E sig \in HostSignals, type \in SignalAbortType :
            /\ IsDirective(raw_conds[1], sig, type)
            /\ Installed(DefaultAbortSignals, sig, type)
        /\ abort_cond_groups = << <<>> >>
        /\ check_result.raised = Falsy
    /\ mainpc # "parsed" => abort_signals = DefaultAbortSignals

\* an accepted directive, and a check of its group
C23_Witness ==
    /\ mainpc = "parsed"
    /\ raw_cond_group = "SIGUSR1:enable"
    /\ abort_signals = ParseSignalCondition(DefaultAbortSignals, "SIGUSR1", "enable")
    /\ check_result.called
    /\ check_result.env.fileExists

\* C28: changed_scheduled_start_time fires exactly when the first and the
\* current scheduled start are both known, their renderings under the format
\* differ, and the current one is later with the prefix +, earlier with the
\* prefix -, either without a prefix.
C28_ChangedFiresOnDirectedChange ==
    \A prefix \in PrefixSamples, fmt \in FormatSamples :
        /\ raw_cond_group = ChangedOption(prefix, fmt)
        /\ mainpc = "parsed"
        /\ check_result.called
        => LET orig == abort_cond_state.orig_scheduled_start_time
               sst == abort_cond_state.scheduled_start_time IN
           check_result.raised # Falsy <=>
                /\ orig # None
                /\ sst # None
                /\ StrfTime(orig, fmt) # StrfTime(sst, fmt)
                /\ prefix = "+" => sst > orig
                /\ prefix = "-" => sst < orig

\* the start was put off by an hour and the predicate with + has fired
C28_Witness ==
    /\ raw_cond_group = ChangedOption("+", "%H")
    /\ abort_cond_state.orig_scheduled_start_time = 3600
    /\ abort_cond_state.scheduled_start_time = 7200
    /\ check_result.called
    /\ check_result.raised # Falsy

JsonBodies ==
    {"liveChatContinuation", "liveChatContinuation with actions",
     "loggedOut true", "loggedOut false", "no loggedOut",
     "playabilityStatus OK", "playabilityStatus LIVE_STREAM_OFFLINE",
     "scheduledStartTime", "empty"}
JsonAnswers ==
    {[error |-> e, code |-> None, body |-> b] : e \in {"absent", "empty"}, b \in JsonBodies}
    \cup {[error |-> "object", code |-> c, body |-> b] :
            c \in {403, 404, 400, 500, None}, b \in JsonBodies}

\* if error: an absent value (None) and an empty object are falsy
ErrorIsTruthy(data) == data.error = "object"

\* __get_youtube_json after __session_get_json has returned data
GetYoutubeJson ==
    /\ mainpc = "json"
    /\ json_result.kind = "pending"
    /\ json_result' = IF ErrorIsTruthy(json_data)
                      THEN [kind |-> "raised", e |-> JsonError(json_data.code)]
                      ELSE [kind |-> "returned", data |-> json_data]
    /\ UNCHANGED <<argVars, stdout, twitchVars, engineVars, mainVars,
                   fetch_fn, fetched, fetch_result, post_payload,
                   connection_read_timeout_try_ct, session_last, session_result,
                   parseVars, json_data, pureVars>>

InitJson ==
    /\ InitProgramIdle
    /\ mainpc = "json"
    /\ fetch_fn = "none"
    /\ fetched = <<>>
    /\ fetch_result = [kind |-> "pending"]
    /\ post_payload = "payload"
    /\ connection_read_timeout_try_ct = 0
    /\ session_last = [kind |-> "none"]
    /\ session_result = [kind |-> "pending"]
    /\ InitParseIdle
    /\ json_data \in JsonAnswers
    /\ json_result = [kind |-> "pending"]
    /\ InitPureIdle

NextJson == GetYoutubeJson

SpecJson == InitJson /\ [][NextJson]_vars

\* C27: a JSON answer with a truthy error never comes back as data: code 403
\* raises VideoUnavailable, 404 VideoNotFound, any other code ParsingError; an
\* answer without error is returned as it is.
C27_JsonErrorsRaise ==
    json_result.kind # "pending" =>
        /\ json_data.error = "object" =>
            /\ json_result.kind = "raised"
            /\ json_data.code = 403 => json_result.e = "VideoUnavailable"
            /\ json_data.code = 404 => json_result.e = "VideoNotFound"
            /\ json_data.code \notin {403, 404} => json_result.e = "ParsingError"
        /\ json_data.error = "absent" =>
            json_result = [kind |-> "returned", data |-> json_data]

\* an answer with error.code 404 has raised VideoNotFound
C27_Witness ==
    /\ mainpc = "json"
    /\ json_data.error = "object"
    /\ json_data.code = 404
    /\ json_result = [kind |-> "raised", e |-> "VideoNotFound"]

(***************************************************************************)
(* The Twitch engine: get_twitch_messages.                                 *)
(***************************************************************************)
\* __ensure_seconds(time, default): int(None) fails and the default is returned
EnsureSeconds(time, default) == IF time = None THEN default ELSE time

\* one comment of a response: its offset in the video and its creation time
TwitchComments == [content_offset_seconds : Times, created_at : {7}]
\* responses of the API: an error envelope, or comments with or without _next
TwitchInfos ==
    {[kind |-> "error"]}
    \cup {[kind |-> "ok", comments |-> cs, next |-> n] :
            cs \in UNION {[1..k -> TwitchComments] : k \in 0..MaxItems},
            n \in BOOLEAN}

\* the record built for a comment: timestamp, time_text and time_in_seconds are
\* all set; there is no renderer and no ticker_duration
TwitchData(comment, id) ==
    [id |-> id, rend |-> "comment",
     timestamp |-> comment.created_at,
     time_in_seconds |-> comment.content_offset_seconds,
     ticker_duration |-> None]

\* variant: no comment is skipped
BeforeStartTimeNever(start, time_in_seconds) == FALSE

\* start_time is not None and time_in_seconds < start_time
BeforeStartTime(start, time_in_seconds) ==
    start # None /\ time_in_seconds < start

\* end_time is not None and time_in_seconds > end_time
AfterEndTime(end, time_in_seconds) ==
    end # None /\ time_in_seconds > end

\* info = self.__session_get_json(url), and the test on 'error'
TwitchFetch ==
    /\ EngineTurn /\ pc = "tw_fetch"
    /\ polls < MaxPolls
    /\ polls' = polls + 1
    /\ \E i \in TwitchInfos :
        IF i.kind = "error"
        THEN EngineEnds("TwitchError", "fetch") /\ UNCHANGED twitch_info
        ELSE /\ twitch_info' = [comments |-> i.comments, next |-> i.next]
             /\ pc' = "tw_comment"
             /\ UNCHANGED exc
    /\ UNCHANGED <<argVars, stdout, unitVars, mainVars, cursor, attempt_ct, config,
                   continuation_by_title_map, is_live, continuation, first_time,
                   use_non_api_fallback, abort_cond_state, info, cur, retry_wait_secs, heartbeat,
                   request, check_result, clock, messages, delivered, seen>>

\* one iteration of the for loop over info['comments'], or the code after it
TwitchComment ==
    /\ EngineTurn /\ pc = "tw_comment"
    /\ IF twitch_info.comments = <<>>
       THEN /\ IF twitch_info.next
               THEN cursor' = cursor + 1 /\ pc' = "tw_fetch" /\ UNCHANGED exc
               ELSE EngineReturns("no_next") /\ UNCHANGED cursor
            /\ UNCHANGED <<twitch_info, seen, messages>>
       ELSE LET comment == Head(twitch_info.comments)
                time_in_seconds == comment.content_offset_seconds
                start == EnsureSeconds(start_time, 0)
                end == EnsureSeconds(end_time, None) IN
            /\ seen' = Append(seen, [id |-> Len(seen) + 1,
                                     content_offset_seconds |-> time_in_seconds,
                                     created_at |-> comment.created_at])
            /\ UNCHANGED cursor
            /\ IF BeforeStartTime(start, time_in_seconds)
               THEN /\ twitch_info' = [twitch_info EXCEPT !.comments = Tail(@)]
                    /\ UNCHANGED <<pc, exc, messages>>
               ELSE IF AfterEndTime(end, time_in_seconds)
               THEN EngineReturns("end_time") /\ UNCHANGED <<twitch_info, messages>>
               ELSE /\ twitch_info' = [twitch_info EXCEPT !.comments = Tail(@)]
                    /\ messages' = Append(messages, TwitchData(comment, Len(seen) + 1))
                    /\ pc' = "tw_deliver"
                    /\ UNCHANGED exc
    /\ UNCHANGED <<argVars, stdout, unitVars, mainVars, attempt_ct, config,
                   continuation_by_title_map, is_live, continuation, first_time,
                   use_non_api_fallback, abort_cond_state, info, cur, retry_wait_secs, heartbeat,
                   request, check_result, polls, clock, delivered>>

\* the sink: print_item, or callback(data), whose TypeError becomes
\* CallbackFunction; no except clause of the function catches it
TwitchDeliver ==
    /\ EngineTurn /\ pc = "tw_deliver"
    /\ LET data == messages[Len(messages)] IN
       IF callback = "bad_arity"
       THEN EngineEnds("CallbackFunction", "deliver") /\ UNCHANGED <<delivered, stdout>>
       ELSE /\ delivered' = IF Delivers(callback) THEN Append(delivered, data)
                            ELSE delivered
            /\ stdout' = IF callback = "none" THEN print_item(data, stdout) ELSE stdout
            /\ pc' = "tw_comment"
            /\ UNCHANGED exc
    /\ UNCHANGED <<argVars, twitchVars, unitVars, mainVars, loopVars, messages, seen>>

\* get_twitch_messages called by a program of its own
InitTwitch ==
    /\ pc = "tw_fetch"
    /\ InitLocals
    /\ InitMainIdle
    /\ InitUnitsIdle
    /\ message_type = "messages"
    /\ chat_type = "live"
    /\ start_time \in {None, 1}
    /\ end_time \in {None, 1}
    /\ callback \in {"none", "callable", "bad_arity"}
    /\ abort_cond_groups = <<>>
    /\ mainpc = "library"
    /\ output = "none"
    /\ abort_signals = DefaultAbortSignals
    /\ handlers = OrigHandlers
    /\ pending_signals = <<>>

NextTwitch ==
    \/ TwitchFetch
    \/ TwitchComment
    \/ TwitchDeliver
    \/ Signal("SIGINT")

SpecTwitch == InitTwitch /\ [][NextTwitch]_vars

\* get_chat_replay with a YouTube URL or with a Twitch URL
InitEngines == Init \/ InitTwitch
NextEngines == Next \/ NextTwitch
SpecEngines == InitEngines /\ [][NextEngines]_vars

(***************************************************************************)
(* Properties of the engine, checked under Spec.                           *)
(***************************************************************************)
IsPrefix(a, b) == Len(a) <= Len(b) /\ SubSeq(b, 1, Len(a)) = a
InBuffer(item) == \E i \in 1..Len(messages) : messages[i].id = item.id
Record(item) ==
    [id |-> item.id, rend |-> item.rend, timestamp |-> item.usec,
     time_in_seconds |-> item.time, ticker_duration |-> item.durationSec]

\* the item the engine has in hand and has not yet put through the time tests
InHand(item) ==
    /\ item.id = cur.id
    /\ \/ pc \in {"parse_link", "parse"}
       \/ ~Running /\ exc.at \in {"parse_link", "parse"}

\* the item is of a type the run asked for
RequestedType(item) ==
    /\ item.hasItem
    /\ item.rend \notin TYPES_OF_MESSAGES.ignore
    /\ \/ message_type = "all"
       \/ message_type = "messages" /\ item.rend \notin TYPES_OF_MESSAGES.superchat
       \/ message_type = "superchat" /\ item.rend \notin TYPES_OF_MESSAGES.message

NotBeforeStart(item) ==
    is_live \/ start_time = None \/ (item.time # None /\ item.time >= start_time)
AfterEnd(item) ==
    end_time # None /\ item.time # None /\ item.time > end_time

\* a step of the engine's own code, not the delivery of a signal
EngineStep == sigCount' = sigCount

CleanExits == {"NoContinuation", "VideoUnavailable", "VideoNotFound",
               "AbortConditionsSatisfied", "KeyboardInterrupt"}

\* C1: whenever NoContinuation, VideoUnavailable, VideoNotFound,
\* AbortConditionsSatisfied or KeyboardInterrupt is raised at a step of the
\* polling loop (the continuation fetch, the heartbeat of the abort-state
\* updater, the abort check), the call returns the buffer and does not let the
\* exception through.
C1_PollingLoopExitsCleanly ==
    (exc.name \in CleanExits /\ exc.at \in {"fetch", "heartbeat", "check"})
        => pc = "returned"

C7_TypeFilter ==
    /\ \A i \in 1..Len(messages) :
        /\ messages[i].rend \notin TYPES_OF_MESSAGES.ignore
        /\ message_type = "messages" => messages[i].rend \notin TYPES_OF_MESSAGES.superchat
        /\ message_type = "superchat" => messages[i].rend \notin TYPES_OF_MESSAGES.message
    /\ message_type = "all" =>
        \A k \in 1..Len(seen) :
            ( /\ ~InHand(seen[k])
              /\ seen[k].hasItem
              /\ seen[k].rend \notin TYPES_OF_MESSAGES.ignore
              /\ NotBeforeStart(seen[k])
              /\ ~AfterEnd(seen[k]) ) => InBuffer(seen[k])

\* C7, amended: the same, where under 'all' the items in the buffer are the
\* non-ignore items with an 'item' payload that the normalizer turns into a
\* record without raising and whose record passes the time filters.
C7_TypeFilterOfParsedItems ==
    /\ \A i \in 1..Len(messages) :
        /\ messages[i].rend \notin TYPES_OF_MESSAGES.ignore
        /\ message_type = "messages" => messages[i].rend \notin TYPES_OF_MESSAGES.superchat
        /\ message_type = "superchat" => messages[i].rend \notin TYPES_OF_MESSAGES.message
    /\ message_type = "all" =>
        \A k \in 1..Len(seen) :
            ( /\ ~InHand(seen[k])
              /\ seen[k].hasItem
              /\ seen[k].rend \notin TYPES_OF_MESSAGES.ignore
              /\ ~seen[k].bad
              /\ NotBeforeStart(seen[k])
              /\ ~AfterEnd(seen[k]) ) => InBuffer(seen[k])

C7_Witness ==
    /\ message_type = "all"
    /\ pc = "returned"
    /\ Len(seen) = 2
    /\ seen[1].bad
    /\ seen[2].rend = "liveChatPaidMessageRenderer"
    /\ Len(messages) = 1
    /\ messages[1].id = 2

\* the items of seen that are records of the requested type
IsRecord(item) == RequestedType(item) /\ ~item.bad
\* the records arrive with offsets in non-decreasing order
NonDecreasingOffsets ==
    \A i, j \in 1..Len(seen) :
        (IsRecord(seen[i]) /\ IsRecord(seen[j]) /\ i <= j) =>
            (seen[i].time # None /\ seen[j].time # None /\ seen[i].time <= seen[j].time)
RecordsOf(items) == [i \in 1..Len(items) |-> Record(items[i])]

\* C8: in a replay run with end_time set the engine ends at the first record
\* it processes whose time_in_seconds exceeds end_time, without appending it
\* and without another fetch; when the records arrive in non-decreasing offset
\* order the returned buffer is exactly the records of the requested type, not
\* before start_time, with time_in_seconds <= end_time.
C8_EndTimeTerminates ==
    (end_time # None /\ ~is_live) =>
        /\ \A k \in 1..Len(seen) :
            (IsRecord(seen[k]) /\ ~InHand(seen[k]) /\ seen[k].time # None
                /\ seen[k].time > end_time) =>
                    /\ pc = "returned"
                    /\ exc = [name |-> "none", at |-> "end_time"]
                    /\ k = Len(seen)
                    /\ ~InBuffer(seen[k])
        /\ (pc = "returned" /\ NonDecreasingOffsets) =>
            messages = RecordsOf(SelectSeq(seen, LAMBDA item :
                            /\ IsRecord(item)
                            /\ ~InHand(item)
                            /\ (start_time = None \/ item.time >= start_time)
                            /\ item.time <= end_time))

C8_Witness ==
    /\ end_time = 1
    /\ ~is_live
    /\ pc = "returned"
    /\ exc.at = "end_time"
    /\ Len(seen) = 2
    /\ seen[1].time = 1
    /\ seen[2].time = 2
    /\ Len(messages) = 1
    /\ messages[1].id = 1

\* the step that puts a parsed record through the time tests
ParsedRecordStep == pc = "parse" /\ ~cur.bad /\ EngineStep
Appended == messages' = Append(messages, Record(cur)) /\ pc' = "deliver"
NotAppended == messages' = messages /\ pc' # "deliver"

\* C9, as stated: a parsed record is appended to the buffer and handed to the
\* sink if and only if the run is live, or start_time is unset, or the record
\* has a time_in_seconds >= start_time.
C9_AppendedIffNotBeforeStart ==
    [][ParsedRecordStep =>
        /\ NotBeforeStart(cur) => Appended
        /\ ~NotBeforeStart(cur) => NotAppended]_vars

\* C9, amended: a parsed record that does not end the run by exceeding end_time
\* is appended to the buffer, and then handed to the sink, if and only if the
\* run is live, or start_time is unset, or the record has a time_in_seconds >=
\* start_time; a record that exceeds end_time is neither appended nor handed on.
C9_AppendedIffNotBeforeStartNorAfterEnd ==
    [][/\ ParsedRecordStep =>
            /\ (NotBeforeStart(cur) /\ ~AfterEnd(cur)) => Appended
            /\ (~NotBeforeStart(cur) \/ AfterEnd(cur)) => NotAppended
       /\ (pc = "deliver" /\ EngineStep /\ callback \in {"none", "callable"}) =>
            delivered' = Append(delivered, Record(cur))
       /\ pc # "deliver" => delivered' = delivered]_vars

C9_Witness ==
    /\ start_time = 1
    /\ ~is_live
    /\ Len(seen) = 2
    /\ seen[1].time = 0
    /\ seen[1].rend = "liveChatTextMessageRenderer"
    /\ message_type = "all"
    /\ seen[2].time = 1
    /\ messages = <<Record(seen[2])>>
    /\ delivered = messages

\* C10: a Phase-I attempt goes on in replay mode when the title map holds
\* '<ChatType> chat replay' (also with '<ChatType> chat' next to it), else in
\* live mode when it holds '<ChatType> chat', else, for an upcoming or live
\* video, to a wait of 45 to 60 seconds followed by another attempt, else it
\* raises NoChatReplay, which leaves the call.
C10_Phase1Decision ==
    [][/\ (pc = "p1_fetch" /\ EngineStep
            /\ exc'.name \notin {"ParsingError", "VideoUnavailable"}) =>
            LET titles == continuation_by_title_map' IN
            IF chat_replay_field(chat_type) \in titles
            THEN /\ pc' = "p3_check" /\ ~is_live'
                 /\ continuation' = TokenOf(chat_replay_field(chat_type))
            ELSE IF chat_live_field(chat_type) \in titles
            THEN /\ pc' = "p3_check" /\ is_live'
                 /\ continuation' = TokenOf(chat_live_field(chat_type))
            ELSE IF config'.is_upcoming \/ config'.is_live
            THEN pc' = "p1_check" /\ exc' = NoExc
            ELSE pc' = "raised" /\ exc'.name = "NoChatReplay"
       /\ (pc = "p1_check" /\ EngineStep /\ exc'.name # "AbortConditionsSatisfied") =>
            pc' = "p1_sleep" /\ retry_wait_secs' \in 45..60
       /\ (pc = "p1_sleep" /\ EngineStep) =>
            pc' = "p1_fetch" /\ attempt_ct' = attempt_ct]_vars

C10_Witness ==
    /\ attempt_ct = 2
    /\ pc = "p3_check"
    /\ ~is_live
    /\ continuation_by_title_map = {"Live chat replay", "Live chat"}
    /\ chat_type = "live"

\* every predicate of the group returns a message, and the group has one
GroupSatisfied(group, state, env) ==
    /\ Len(group) > 0
    /\ \A i \in 1..Len(group) : CondFunc(group[i], state, env) # Falsy
SomeGroupSatisfied(groups, state, env) ==
    \E g \in 1..Len(groups) : GroupSatisfied(groups[g], state, env)

\* the state the Phase-I checker works on: the abort state brought up to date
\* with the watch page of this attempt
Phase1CheckedState ==
    [abort_cond_state EXCEPT
        !.playability_status = config.playability_status,
        !.scheduled_start_time = config.scheduled_start_time,
        !.orig_scheduled_start_time =
            IF @ = None THEN config.scheduled_start_time ELSE @]

\* C11: for an upcoming (or live) video without chat and with abort conditions,
\* every Phase-I iteration runs the abort checker before its retry wait: when
\* a group is satisfied on the state of that attempt, AbortConditionsSatisfied
\* ends the run there, with no wait and no further attempt, and the call
\* returns the empty buffer; the wait is reached only through a check that
\* found no group satisfied.
C11_AbortCheckBeforeRetryWait ==
    [][/\ (pc = "p1_check" /\ EngineStep /\ Len(abort_cond_groups) > 0) =>
            /\ check_result'.called
            /\ IF SomeGroupSatisfied(abort_cond_groups, Phase1CheckedState,
                                     check_result'.env)
               THEN /\ pc' = "returned"
                    /\ exc'.name = "AbortConditionsSatisfied"
                    /\ messages' = <<>>
                    /\ attempt_ct' = attempt_ct
                    /\ retry_wait_secs' = retry_wait_secs
               ELSE pc' = "p1_sleep" /\ exc' = NoExc
       /\ (pc' = "p1_sleep" /\ pc # "p1_sleep") => pc = "p1_check"
       /\ (pc' = "returned" /\ pc # "returned"
            /\ exc'.name = "AbortConditionsSatisfied") => messages' = messages]_vars

C11_Witness ==
    /\ pc = "returned"
    /\ exc = [name |-> "AbortConditionsSatisfied", at |-> "phase1_check"]
    /\ abort_cond_groups = << <<Cond("min_time_until_scheduled_start_time", 0)>> >>
    /\ config.is_upcoming
    /\ continuation_by_title_map = {}
    /\ attempt_ct = 1
    /\ abort_cond_state.scheduled_start_time = 1
    /\ check_result = Checked([fileExists |-> FALSE, now |-> 0], "1 secs >= 0 secs")
    /\ messages = <<>>

\* the request sent last is the API request of the members-only scenario: no
\* liveChatContinuation object, loggedOut true, after a logged-in bootstrap
FallbackDue ==
    /\ request.endpoint = "api"
    /\ request.answer = "none"
    /\ request.loggedOut
    /\ ~config.logged_out

\* C13: when the bootstrap recorded logged_out=false and a later API
\* continuation request returns no continuation object with loggedOut=true,
\* the engine sets the fallback flag, and its very next continuation request
\* goes to the HTML continuation endpoint with the token of the failed API
\* request; between the two requests no action is processed, no record is
\* appended, the token is not advanced and no timeoutMs sleep is taken.
C13_FallbackOnNextRequest ==
    [][/\ FallbackDue =>
            /\ use_non_api_fallback
            /\ continuation = request.continuation
            /\ pc \in {"p3_check", "p3_fetch", "returned", "raised"}
       /\ (pc = "p3_fetch" /\ EngineStep /\ FallbackDue') =>
            /\ request'.continuation = continuation
            /\ UNCHANGED <<continuation, messages, delivered, seen, cur, first_time>>
            /\ pc' = "p3_check"
       /\ (FallbackDue /\ request' # request) =>
            /\ pc = "p3_fetch"
            /\ request'.endpoint = "fallback"
            /\ request'.continuation = request.continuation
       /\ (FallbackDue /\ request' = request) =>
            UNCHANGED <<continuation, messages, delivered, seen, cur, first_time>>]_vars

C13_Witness ==
    /\ request.endpoint = "fallback"
    /\ request.answer = "info"
    /\ use_non_api_fallback
    /\ ~config.logged_out
    /\ polls = 3
    /\ pc = "deliver"
    /\ continuation = request.continuation

\* C24: when an API continuation answer holds no liveChatContinuation
\* object, the engine turns to the HTML fallback exactly when the bootstrap
\* recorded logged_out = false and the loggedOut of the answer is true or
\* missing; otherwise NoContinuation is raised and the loop ends with the
\* buffer returned.
C24_FallbackIffLoggedOutAfterLoggedIn ==
    [][(pc = "p3_fetch" /\ EngineStep /\ request'.endpoint = "api"
            /\ request'.answer = "none") =>
        IF ~config.logged_out /\ request'.loggedOutField \in {"true", "missing"}
        THEN /\ use_non_api_fallback'
             /\ pc' = "p3_check"
             /\ exc' = exc
        ELSE /\ use_non_api_fallback' = use_non_api_fallback
             /\ pc' = "returned"
             /\ exc' = [name |-> "NoContinuation", at |-> "fetch"]
             /\ messages' = messages]_vars

\* the answer has no loggedOut and the engine has turned to the fallback
C24_Witness ==
    /\ request.endpoint = "api"
    /\ request.answer = "none"
    /\ request.loggedOutField = "missing"
    /\ ~config.logged_out
    /\ use_non_api_fallback
    /\ pc = "p3_check"

\* the step is the end of the handling of an answer: the test on actions, then
\* the continuations
AnswerHandled ==
    pc = "p3_item" /\ pc' \notin {"p3_item", "parse_link", "parse"}

\* the loop goes on to its next iteration
LoopGoesOn == pc' \in {"p3_sleep", "p3_check"}

\* the statement of C25 as the spec has it: whenever the loop goes on, the next
\* fetch uses a token read from the sub-key of continuations[0]
C25_NextFetchUsesTokenOfAnswer ==
    [][(AnswerHandled /\ LoopGoesOn) =>
            /\ info'.continuations.cont = "next"
            /\ continuation' # continuation]_vars

\* C25: after each handled answer, a replay without actions ends the loop
\* with no further fetch; otherwise an answer without continuations ends it;
\* otherwise the loop goes on, with the token of the sub-key of
\* continuations[0] when that holds one and with the token it had when it
\* holds none, after a sleep exactly when timeoutMs is there; the next fetch
\* sends that token.  A live chat without actions does not end the loop.
C25_LoopTail ==
    [][/\ AnswerHandled =>
            IF ~info.hasActions /\ ~is_live
            THEN /\ pc' = "returned"
                 /\ exc' = [name |-> "none", at |-> "no_actions"]
            ELSE \/ /\ pc' = "returned"
                    /\ exc' = [name |-> "none", at |-> "no_continuations"]
                 \/ /\ LoopGoesOn
                    /\ info'.continuations \in ContinuationsOffered("polling")
                    /\ continuation' = IF info'.continuations.cont = "next"
                                       THEN continuation + 1 ELSE continuation
                    /\ pc' = "p3_sleep" <=> info'.continuations.timeoutMs
       /\ pc = "p3_sleep" => pc' = "p3_check" /\ UNCHANGED <<continuation, polls, request>>
       /\ request' # request =>
            /\ pc = "p3_fetch"
            /\ request'.continuation = continuation
            /\ continuation' = continuation
       /\ pc = "returned" => UNCHANGED <<polls, request>>]_vars

\* a live chat: an answer without actions and without a token, then a fetch
\* with the token of the fetch before
C25_Witness ==
    /\ mainpc = "polling"
    /\ is_live
    /\ polls = 2
    /\ request.endpoint = "api"
    /\ request.continuation = TokenOf("Live chat")
    /\ continuation = TokenOf("Live chat")
    /\ seen = <<>>

\* C26: with abort conditions, every continuation fetch of Phase III comes
\* after one run of the abort-state updater and one abort check that is later
\* than the fetch before: the fetch is entered from the check alone, the check
\* has read the state the updater left and has raised nothing, and the fetch
\* uses the check up; the first check is before the bootstrap fetch.
C26_AbortCheckBeforeEachFetch ==
    [][abort_cond_groups # <<>> =>
        /\ polls' # polls =>
            /\ pc = "p3_fetch"
            /\ check_result.called
            /\ check_result.raised = Falsy
            /\ abort_cond_state.poll_timestamp # None
            /\ check_result' = NoCheck
            /\ request'.endpoint = "bootstrap" <=> polls = 0
        /\ (pc' = "p3_fetch" /\ pc # "p3_fetch") =>
            /\ pc = "p3_check"
            /\ check_result'.called
            /\ check_result'.raised = CheckCondGroups(abort_cond_groups, abort_cond_state',
                                                      check_result'.env)
        /\ (pc = "p3_fetch" /\ pc' = "p3_fetch") =>
            UNCHANGED <<check_result, abort_cond_state, polls>>]_vars

\* the third fetch of a run with an abort condition, by the HTML fallback: a
\* check has been between the API answer that turned to it and this fetch
C26_Witness ==
    /\ abort_cond_groups # <<>>
    /\ polls = 3
    /\ request.endpoint = "fallback"
    /\ use_non_api_fallback
    /\ abort_cond_state.poll_timestamp # None
    /\ check_result = NoCheck

\* C30: orig_scheduled_start_time is latched the first time
\* scheduled_start_time becomes known, whatever makes it known: a step that
\* leaves a scheduled start in a state without an original one stores it as
\* the original one, and an original one never changes.
C30_OrigLatchedAtFirstKnownStart ==
    [][/\ (abort_cond_state.orig_scheduled_start_time = None
            /\ abort_cond_state'.scheduled_start_time # None) =>
                abort_cond_state'.orig_scheduled_start_time
                    = abort_cond_state'.scheduled_start_time
       /\ abort_cond_state.orig_scheduled_start_time # None =>
                abort_cond_state'.orig_scheduled_start_time
                    = abort_cond_state.orig_scheduled_start_time]_vars

\* C17: when the callback rejects a record with a TypeError (wrong arity), the
\* run stops and CallbackFunction leaves get_youtube_messages; the engine does
\* not go on to further items or further continuations.
C17_CallbackFunctionIsFatal ==
    [][(pc = "deliver" /\ EngineStep /\ callback = "bad_arity") =>
            /\ pc' = "raised"
            /\ exc'.name = "CallbackFunction"]_vars

\* the two items of the run are a paid message and the ticker item mirroring it,
\* and the engine is done with both
PaidThenTickerHandled ==
    /\ Len(seen) = 2
    /\ seen[1].rend = "liveChatPaidMessageRenderer"
    /\ seen[2].rend = "liveChatTickerPaidMessageItemRenderer"
    /\ seen[2].durationSec # None
    /\ pc = "p3_item"
    /\ cur = NoItem

\* the buffered records that carry ticker_duration
TickerRecords == {i \in 1..Len(messages) : messages[i].ticker_duration # None}

\* C18 as stated: a record carrying ticker_duration stays in the buffer and
\* produces no stdout line; a response holding a liveChatPaidMessageRenderer
\* item and the liveChatTickerPaidMessageItemRenderer item mirroring it yields
\* exactly one stdout line and two buffered records.
C18_PaidAndTickerOneLineTwoRecords ==
    /\ \A i \in TickerRecords, k \in 1..Len(stdout) :
            stdout[k] # MessageToString(messages[i])
    /\ PaidThenTickerHandled => (Len(stdout) = 1 /\ Len(messages) = 2)

\* C18, amended: a record carrying ticker_duration stays in the buffer and
\* produces no stdout line.  When message_type is superchat or all, the sink is
\* print_item (no callback), and both items pass the time tests, a paid message
\* and its ticker item yield exactly one stdout line, the paid message's, and two
\* buffered records.
C18_TickerBufferedNotPrinted ==
    /\ \A i \in TickerRecords, k \in 1..Len(stdout) :
            stdout[k] # MessageToString(messages[i])
    /\ \A i \in 1..Len(seen) :
            (seen[i].durationSec # None /\ InBuffer(seen[i])) =>
                \E k \in TickerRecords : messages[k] = Record(seen[i])
    /\ (/\ PaidThenTickerHandled
        /\ message_type \in {"superchat", "all"}
        /\ callback = "none"
        /\ \A i \in 1..2 : NotBeforeStart(seen[i]) /\ ~AfterEnd(seen[i]))
       => /\ stdout = <<MessageToString(Record(seen[1]))>>
          /\ messages = <<Record(seen[1]), Record(seen[2])>>

C18_Witness ==
    /\ PaidThenTickerHandled
    /\ message_type = "superchat"
    /\ callback = "none"
    /\ Len(stdout) = 1
    /\ Len(messages) = 2
    /\ messages[2].ticker_duration = 5

\* the comments read so far that are not before start_time
TwitchKept ==
    SelectSeq(seen, LAMBDA c : c.content_offset_seconds >= EnsureSeconds(start_time, 0))
TwitchRecords(comments) ==
    [i \in 1..Len(comments) |->
        [id |-> comments[i].id, rend |-> "comment",
         timestamp |-> comments[i].created_at,
         time_in_seconds |-> comments[i].content_offset_seconds,
         ticker_duration |-> None]]
\* the run has ended at a comment past end_time
EndedAtEndTime == pc = "returned" /\ exc = [name |-> "none", at |-> "end_time"]

\* C21: get_twitch_messages follows the _next cursor from page to page and
\* returns the buffer as soon as a response carries no _next; comments before
\* start_time are skipped; the first comment past end_time ends the run without
\* being appended; a response with an error field raises TwitchError without
\* appending any comment of that page.
C21_TwitchPaging ==
    /\ [](IF EndedAtEndTime
          THEN /\ end_time # None
               /\ seen[Len(seen)].content_offset_seconds > end_time
               /\ seen[Len(seen)] = TwitchKept[Len(TwitchKept)]
               /\ messages = TwitchRecords(SubSeq(TwitchKept, 1, Len(TwitchKept) - 1))
          ELSE messages = TwitchRecords(TwitchKept))
    /\ [](\A i \in 1..Len(messages) :
            end_time # None => messages[i].time_in_seconds <= end_time)
    /\ [](pc = "tw_fetch" => cursor = polls)
    /\ [](pc \in {"tw_comment", "tw_deliver"} => cursor = polls - 1)
    /\ []((pc = "returned" /\ exc.at = "no_next") =>
            (~twitch_info.next /\ twitch_info.comments = <<>>))
    /\ [][(pc = "tw_comment" /\ EngineStep /\ twitch_info.comments = <<>>) =>
            IF twitch_info.next
            THEN pc' = "tw_fetch" /\ cursor' = cursor + 1 /\ messages' = messages
            ELSE pc' = "returned" /\ exc'.name = "none" /\ messages' = messages]_vars
    /\ [][(pc = "tw_fetch" /\ EngineStep /\ exc'.name = "TwitchError") =>
            (pc' = "raised" /\ messages' = messages /\ seen' = seen)]_vars

\* a comment before start_time was skipped, one was appended, and on the second
\* page a comment past end_time ended the run
C21_Witness ==
    /\ start_time = 1 /\ end_time = 1
    /\ polls = 2 /\ cursor = 1
    /\ Len(seen) = 3
    /\ seen[1].content_offset_seconds = 0
    /\ seen[2].content_offset_seconds = 1
    /\ seen[3].content_offset_seconds = 2
    /\ EndedAtEndTime
    /\ Len(messages) = 1

\* the record is one of get_twitch_messages
OfTwitch(data) == data.rend = "comment"

Lines(records) == [i \in 1..Len(records) |-> MessageToString(records[i])]
NonTicker(records) == SelectSeq(records, LAMBDA data : data.ticker_duration = None)

\* the last record of the buffer has not been through the sink
SinkPending == pc = "deliver" \/ (~Running /\ exc.at = "deliver")
\* the buffered records that have been through the sink
Sunk == IF SinkPending THEN SubSeq(messages, 1, Len(messages) - 1) ELSE messages

\* C20 as stated: with an output path that is neither .json nor .csv the file
\* is truncated once at engine start, and for every record appended to the
\* buffer exactly one line message_to_string(record) is appended to the file,
\* in buffer order: the lines correspond one-to-one to the buffered records.
C20_OneLinePerBufferedRecord ==
    (output = "out.txt" /\ mainpc # "select_callback") =>
        file.content = Lines(Sunk)

\* C20, amended: the file is truncated once, before the engine starts, and
\* thereafter only grows, by one line message_to_string(record) for every
\* buffered record without ticker_duration that has reached the callback, in
\* buffer order; a ticker record is buffered but gets no line, and the record
\* appended last has no line yet when the run is interrupted before its callback.
C20_OneLinePerNonTickerRecord ==
    /\ []((output = "out.txt" /\ mainpc # "select_callback") =>
            file.content = Lines(NonTicker(Sunk)))
    /\ [][output = "out.txt" =>
            \/ file' = file
            \/ /\ mainpc = "select_callback"
               /\ file'.content = <<>>
            \/ /\ mainpc # "select_callback"
               /\ pc = "deliver"
               /\ file'.content =
                      Append(file.content, MessageToString(messages[Len(messages)]))]_vars

\* a text record and a ticker record are buffered, the file holds one line
C20_Witness ==
    /\ output = "out.txt"
    /\ Len(messages) = 2
    /\ messages[1].ticker_duration = None
    /\ messages[2].ticker_duration # None
    /\ pc = "p3_item"
    /\ file = [state |-> "appended", content |-> <<MessageToString(messages[1])>>]
    /\ stdout = file.content

\* C3: on every termination path of main the finalizer runs, and when the
\* output path ends in .json or .csv and the buffer is not empty the written
\* file holds every record ever appended to the buffer: none is appended after
\* the flush.
C3_FlushHoldsEveryRecord ==
    file.state = "written" => file.content = messages

\* C4, as stated: only the first entry of the finalizer writes the file,
\* restores the handlers and closes the logs; every later entry returns at the
\* guard, without writing and without exiting the process.
C4_OnlyFirstEntryPassesGuard ==
    \A i \in 1..Len(fin) : fin[i].entry > 1 => fin[i].pc = "guard"

\* C4, amended: the output file is written at most once per run; at most one
\* entry of the finalizer is ever past the guard; the flag, once set, stays
\* set; and an entry that finds the flag set returns at once, without writing,
\* without restoring handlers and without exiting the process.  The entry that
\* writes is the first to reach the guard, not always the first to be entered.
\* (A text file is written by main and by the callback, never by the finalizer.)
C4_WrittenAtMostOnce ==
    [][/\ file' # file =>
            \/ file.state = "absent" /\ file'.state = "partial"
            \/ file.state = "partial" /\ file'.state = "written"
            \/ output = "out.txt" /\ fin = <<>>
       /\ Cardinality({i \in 1..Len(fin) : fin[i].pc # "guard"}) <= 1
       /\ called_finalize_output => called_finalize_output'
       /\ (fin # <<>> /\ Top.pc = "guard" /\ called_finalize_output /\ EngineStep) =>
            /\ fin' = Pop(fin)
            /\ UNCHANGED <<file, handlers, pc, exc>>
            /\ mainpc' # "exited_exc"]_vars

C4_Witness ==
    /\ mainpc = "exited"
    /\ Len(sigLog) = 1
    /\ sigLog[1].msg = "Aborting"
    /\ file.state = "written"
    /\ Len(file.content) > 0

\* the registration loop is through with a signal of abort_signals
Registered(s) ==
    /\ s \in DOMAIN abort_signals
    /\ \A i \in 1..Len(pending_signals) : pending_signals[i] # s

\* C5, as stated: for every signal of the policy map other than SIGINT, a
\* default abort signal or one the operator named, 'default' installs the
\* handler 'enable' installs, the finalizer; for SIGINT 'default' installs
\* no handler.
C5_DefaultInstallsFinalizer ==
    \A s \in DOMAIN abort_signals :
        Registered(s) =>
            /\ (s # "SIGINT" /\ abort_signals[s] \in {"default", "enable"}) =>
                    handlers[s] = "finalize_output"
            /\ (s = "SIGINT" /\ abort_signals[s] = "default") => handlers[s] = "orig"

\* C5, amended: 'default' installs the handler of 'enable', the finalizer, for
\* the default abort signals other than SIGINT (SIGBREAK, SIGQUIT, SIGTERM,
\* SIGABRT); for any other signal the operator named, 'default' installs no
\* handler and the signal is handled as before; so it is for SIGINT.
C5_DefaultInstallsFinalizerForDefaultSignals ==
    \A s \in DOMAIN abort_signals :
        Registered(s) =>
            /\ (s # "SIGINT" /\ abort_signals[s] = "enable") =>
                    handlers[s] = "finalize_output"
            /\ (s # "SIGINT" /\ abort_signals[s] = "default") =>
                    handlers[s] = IF s \in {"SIGBREAK", "SIGQUIT", "SIGTERM", "SIGABRT"}
                                  THEN "finalize_output" ELSE "orig"
            /\ (s = "SIGINT" /\ abort_signals[s] = "default") => handlers[s] = "orig"

C5_Witness ==
    /\ mainpc = "register"
    /\ pending_signals = <<>>
    /\ "SIGUSR1" \in DOMAIN abort_signals
    /\ abort_signals["SIGUSR1"] = "default"
    /\ handlers["SIGUSR1"] = "orig"
    /\ abort_signals["SIGTERM"] = "default"
    /\ handlers["SIGTERM"] = "finalize_output"

\* the delivery of a signal whose policy is 'disable'
DisabledDelivery ==
    /\ sigCount' = sigCount + 1
    /\ sigLog'[Len(sigLog')].sig \in DOMAIN abort_signals
    /\ abort_signals[sigLog'[Len(sigLog')].sig] = "disable"
OnlyReportedIgnored ==
    /\ sigLog'[Len(sigLog')].msg = "Ignored"
    /\ UNCHANGED <<engineVars, fin, file, called_finalize_output, handlers, mainpc>>
\* finalize_output has not yet put the original handlers back
HandlersStillRegistered ==
    \/ ~called_finalize_output
    \/ \E i \in 1..Len(fin) : fin[i].pc \in {"open", "dump", "restore"}

\* C6, as stated: on every delivery of a signal with policy 'disable', at any
\* point of the run, the handler only reports the signal as ignored: the
\* finalizer is not entered, nothing is written, the engine's state is as before.
C6_DisabledSignalOnlyReported ==
    [][DisabledDelivery => OnlyReportedIgnored]_vars

\* C6, amended: the same, for every delivery from the registration of the
\* handlers until the finalizer restores the original ones; after that the
\* signal acts as it did before main registered a handler.
C6_DisabledSignalOnlyReportedWhileRegistered ==
    [][(DisabledDelivery /\ HandlersStillRegistered) => OnlyReportedIgnored]_vars

C6_Witness ==
    /\ Len(sigLog) = 1
    /\ sigLog[1] = [sig |-> "SIGINT", msg |-> "Ignored"]
    /\ abort_signals["SIGINT"] = "disable"
    /\ pc = "deliver"
    /\ Len(messages) = 1

(***************************************************************************)
(* Properties of the heartbeat, checked under SpecHeartbeat.               *)
(***************************************************************************)
\* a step that sends a heartbeat: the clock of the requests goes on, so the
\* record of the last one changes
HeartbeatIssued == heartbeat' # heartbeat

\* C31: a heartbeat is issued only while playability_status of the state is
\* not 'OK' and only when more than heartbeat_interval_secs (one tick of 60 s
\* when the page declared none) has passed since poll_timestamp, which becomes
\* the time of the heartbeat; it goes to the API, or to the watch page when the
\* fallback flag is set; two heartbeats in a row are more than one interval
\* apart, and the first tick of Phase III issues none.
C31_HeartbeatThrottled ==
    [][HeartbeatIssued =>
        /\ abort_cond_state.playability_status # "OK"
        /\ abort_cond_state.poll_timestamp # None
        /\ polls > 0
        /\ heartbeat'.at > abort_cond_state.poll_timestamp
                            + (IF config.heartbeat_interval_secs = None
                               THEN HeartbeatIntervalDefault
                               ELSE config.heartbeat_interval_secs)
        /\ abort_cond_state'.poll_timestamp = heartbeat'.at
        /\ heartbeat'.endpoint = (IF use_non_api_fallback THEN "fallback" ELSE "api")
        /\ heartbeat.at # None =>
            heartbeat'.at > heartbeat.at
                            + (IF config.heartbeat_interval_secs = None
                               THEN HeartbeatIntervalDefault
                               ELSE config.heartbeat_interval_secs)]_vars

\* a second heartbeat, under an interval the page declared
C31_Witness ==
    /\ heartbeat.endpoint = "api"
    /\ heartbeat.sequenceNumber = 1
    /\ config.heartbeat_interval_secs = 2
    /\ heartbeat.at = MaxHeartbeatClock

\* C32: the sequenceNumber of the API heartbeats of one call are 0, 1, 2, ...:
\* the first carries 0, each later one the number of the one before plus one,
\* whether or not that one was answered; no watch-page fetch comes between two
\* API heartbeats.
C32_SequenceNumbersCount ==
    [][(HeartbeatIssued /\ heartbeat'.endpoint = "api") =>
        /\ heartbeat.endpoint # "fallback"
        /\ heartbeat.endpoint = "none" => heartbeat'.sequenceNumber = 0
        /\ heartbeat.endpoint = "api" =>
            heartbeat'.sequenceNumber = heartbeat.sequenceNumber + 1]_vars

\* the third heartbeat fails, and has taken its number
C32_Witness ==
    /\ heartbeat.endpoint = "api"
    /\ heartbeat.sequenceNumber = 2
    /\ config.heartbeat_sequence_number = 3
    /\ pc = "raised"
    /\ exc.at = "heartbeat"

\* a step that sends a continuation request
FetchIssued == polls' # polls

\* C37: once use_non_api_fallback is set it stays set; every continuation
\* request sent from then on goes to the HTML endpoint and every heartbeat to
\* the watch page, none to the API; the flag is set by the answer to an API
\* request, which sends the loop back to its head, so that this happens at most
\* once in a run.
C37_FallbackIsSticky ==
    [][/\ use_non_api_fallback => use_non_api_fallback'
       /\ (use_non_api_fallback /\ FetchIssued) => request'.endpoint = "fallback"
       /\ (use_non_api_fallback /\ HeartbeatIssued) =>
            /\ heartbeat'.endpoint = "fallback"
            /\ heartbeat'.sequenceNumber = None
            /\ config' = config
       /\ (~use_non_api_fallback /\ use_non_api_fallback') =>
            /\ FetchIssued
            /\ request'.endpoint = "api"
            /\ pc' = "p3_check"]_vars

\* after the transition: a heartbeat through the watch page, then a request to
\* the HTML endpoint
C37_Witness ==
    /\ use_non_api_fallback
    /\ heartbeat.endpoint = "fallback"
    /\ request.endpoint = "fallback"
    /\ polls = MaxPolls

\* C38: an API heartbeat is sent only after the first fetch of Phase III has
\* come back with a liveChatContinuation object and has stored api_version,
\* api_key and context in config, also in the runs that went through retries
\* of Phase I with their abort checks: the request never reads the three
\* entries before they are there.
C38_ApiHeartbeatAfterBootstrap ==
    [][(HeartbeatIssued /\ heartbeat'.endpoint = "api") =>
        /\ config.has_api
        /\ heartbeat'.has_api
        /\ ~first_time
        /\ polls > 0]_vars

\* an API heartbeat in a run that has retried Phase I
C38_Witness ==
    /\ attempt_ct = MaxAttempts
    /\ heartbeat.endpoint = "api"
    /\ heartbeat.has_api
    /\ pc = "p3_fetch"

\* C39: once orig_scheduled_start_time holds a value it keeps it to the end of
\* the call: through the retries of Phase I, the first tick of Phase III with
\* its new checker over the same state, and every refresh of
\* scheduled_start_time by a heartbeat or by the watch page.
C39_OrigNeverChanges ==
    [][abort_cond_state.orig_scheduled_start_time # None =>
        abort_cond_state'.orig_scheduled_start_time
            = abort_cond_state.orig_scheduled_start_time]_vars

\* latched in Phase I, kept while a refresh through the watch page has taken
\* the scheduled start away
C39_Witness ==
    /\ attempt_ct = MaxAttempts
    /\ abort_cond_state.orig_scheduled_start_time = 1
    /\ abort_cond_state.scheduled_start_time = None
    /\ heartbeat.endpoint = "fallback"
    /\ check_result.called

(***************************************************************************)
(* The conversions of a record's fields: __seconds_to_time,                *)
(* __time_to_seconds, __get_colours, and __parse_item that calls them.     *)
(***************************************************************************)
\* the functions of the program other than these are not running
InitConversionsOnly ==
    /\ InitProgramIdle
    /\ fetch_fn = "none"
    /\ fetched = <<>>
    /\ fetch_result = [kind |-> "pending"]
    /\ post_payload = "None"
    /\ connection_read_timeout_try_ct = 0
    /\ session_last = [kind |-> "none"]
    /\ session_result = [kind |-> "pending"]
    /\ InitParseIdle
    /\ InitJsonIdle

\* str(timedelta(seconds=seconds)): [D day[s], ]H:MM:SS
TimedeltaStr(s) ==
    LET days == s \div 86400
        rem == s % 86400
        clock_text == ToString(rem \div 3600) \o ":" \o Pad2((rem \div 60) % 60)
                        \o ":" \o Pad2(rem % 60)
    IN IF days = 0 THEN clock_text
       ELSE ToString(days) \o (IF days = 1 THEN " day, " ELSE " days, ") \o clock_text

\* __seconds_to_time
SecondsToTime(s) ==
    IF TimedeltaStr(s) # "0:0" THEN TimedeltaStr(s) ELSE ""

\* str.split(':')
SplitColons(str) ==
    LET colons == {i \in 1..Len(str) : Char(str, i) = ":"}
        n == Cardinality(colons) + 1
    IN [k \in 1..n |->
            SubSeq(str,
                   IF k = 1 THEN 1 ELSE NthPosition(colons, k - 1) + 1,
                   IF k = n THEN Len(str) ELSE NthPosition(colons, k) - 1)]

\* int(x) of a string: blanks around it, a sign, then digits; anything else is
\* a ValueError
PyInt(x) ==
    LET t == Strip(x)
        signed == StartsWith(t, "-") \/ StartsWith(t, "+")
        digits == IF signed THEN SubSeq(t, 2, Len(t)) ELSE t
    IN IF ~IsDigits(digits) THEN [ok |-> FALSE, value |-> 0]
       ELSE [ok |-> TRUE,
             value |-> IF StartsWith(t, "-") THEN 0 - Int10(digits) ELSE Int10(digits)]

Abs(n) == IF n < 0 THEN 0 - n ELSE n

\* variant: the fields are weighted 60 * i
FieldWeightLinear(i) == 60 * i

\* 60 ** i, i counted from 0 at the last field
FieldWeight(i) ==
    60 ^ i

RECURSIVE WeightedSum(_, _)
WeightedSum(fields, k) ==
    IF k > Len(fields) THEN 0
    ELSE Abs(PyInt(fields[k]).value) * FieldWeight(Len(fields) - k)
            + WeightedSum(fields, k + 1)

\* __time_to_seconds: sum(abs(int(x)) * 60 ** i ...) over the fields of
\* time.replace(',', '').split(':') read from the right, times -1 when time[0]
\* is '-'
TimeToSeconds(time) ==
    LET fields == SplitColons(Replace(time, ",", "")) IN
    IF \E k \in 1..Len(fields) : ~PyInt(fields[k]).ok
    THEN [kind |-> "raised", e |-> "ValueError"]
    ELSE [kind |-> "returned",
          value |-> WeightedSum(fields, 1) * (IF Char(time, 1) = "-" THEN -1 ELSE 1)]

MaxDays == 2
\* the numbers of seconds the conversions are run on: the first and the last
\* value of every field of the text, on each of the days
SecondsSamples ==
    {d * 86400 + h * 3600 + m * 60 + sec :
        d \in 0..MaxDays, h \in {0, 1, 23}, m \in {0, 1, 59}, sec \in {0, 1, 59}}
\* the texts of a replay that __time_to_seconds is run on
TimeTextSamples == {"0:00", "1:05", "01:02:03", "-00:30", "-0:05", "25:00:00", "1,000:00:00"}

\* time_text = __seconds_to_time(seconds)
SecondsToTimeCall ==
    /\ mainpc = "time"
    /\ seconds # None
    /\ time_text = "None"
    /\ time_text' = SecondsToTime(seconds)
    /\ UNCHANGED <<argVars, stdout, twitchVars, engineVars, mainVars,
                   fetch_fn, fetched, fetch_result, post_payload,
                   connection_read_timeout_try_ct, session_last, session_result,
                   parseVars, jsonVars, item_info, item_data, seconds, round_trip>>

\* __time_to_seconds(time_text)
TimeToSecondsCall ==
    /\ mainpc = "time"
    /\ time_text # "None"
    /\ round_trip.kind = "pending"
    /\ round_trip' = TimeToSeconds(time_text)
    /\ UNCHANGED <<argVars, stdout, twitchVars, engineVars, mainVars,
                   fetch_fn, fetched, fetch_result, post_payload,
                   connection_read_timeout_try_ct, session_last, session_result,
                   parseVars, jsonVars, item_info, item_data, seconds, time_text>>

\* either a number of seconds to take through both functions, or a text for
\* the second one
InitTime ==
    /\ InitConversionsOnly
    /\ mainpc = "time"
    /\ item_info = NoItemInfo
    /\ item_data = [kind |-> "pending"]
    /\ round_trip = [kind |-> "pending"]
    /\ \/ seconds \in SecondsSamples /\ time_text = "None"
       \/ seconds = None /\ time_text \in TimeTextSamples

NextTime ==
    \/ SecondsToTimeCall
    \/ TimeToSecondsCall

SpecTime == InitTime /\ [][NextTime]_vars

\* C35, as stated: for every number of seconds s >= 0,
\* time_to_seconds(seconds_to_time(s)) is s.
C35_RoundTrip ==
    (seconds # None /\ round_trip.kind # "pending") =>
        round_trip = [kind |-> "returned", value |-> seconds]

\* C35, amended: the round trip gives s back for 0 <= s < 86400; from one day
\* on the text starts with the number of days ("1 day, 0:00:00"), which int()
\* does not take: the call raises ValueError.  time_to_seconds itself is the
\* 60**i-weighted sum of the fields read from the right, negated when the text
\* starts with '-'.
C35_RoundTripWithinOneDay ==
    /\ (seconds # None /\ round_trip.kind # "pending") =>
        IF seconds < 86400
        THEN round_trip = [kind |-> "returned", value |-> seconds]
        ELSE round_trip = [kind |-> "raised", e |-> "ValueError"]
    /\ (seconds = None /\ round_trip.kind # "pending") =>
        /\ time_text = "01:02:03" => round_trip.value = 3723
        /\ time_text = "-00:30" => round_trip.value = -30
        /\ time_text = "25:00:00" => round_trip.value = 90000
        /\ time_text = "1,000:00:00" => round_trip.value = 3600000

\* the last second of the first day has gone through both functions
C35_Witness ==
    /\ seconds = 86399
    /\ time_text = "23:59:59"
    /\ round_trip = [kind |-> "returned", value |-> 86399]

\* the values of an item and of a record: a string, the object {simpleText: s},
\* the runs of a message, an integer, the label of a sticker, None
Str(s) == [str |-> s]
SimpleText(s) == [simpleText |-> s]
Runs(texts) == [runs |-> texts]
IntValue(n) == [int |-> n]
Sticker(label) == [label |-> label]
NoneValue == [none |-> TRUE]
\* an ARGB integer of 32 bits, held as its upper and its lower 16 bits: the
\* integers of the checker end at 2^31 - 1
Argb(hi, lo) == [hi |-> hi, lo |-> lo]

\* (argb_int >> k) & 255 for the k the code uses: 0, 8, 16, 24
ShiftAnd255(argb_int, k) ==
    IF k >= 16 THEN (argb_int.hi \div (2 ^ (k - 16))) % 256
    ELSE (argb_int.lo \div (2 ^ k)) % 256

\* variant: red and blue change places
BgraOf(argb_int) ==
    <<ShiftAnd255(argb_int, 0), ShiftAnd255(argb_int, 8),
      ShiftAnd255(argb_int, 16), ShiftAnd255(argb_int, 24)>>

\* __arbg_int_to_rgba
ArgbIntToRgba(argb_int) ==
    <<ShiftAnd255(argb_int, 16), ShiftAnd255(argb_int, 8),
      ShiftAnd255(argb_int, 0), ShiftAnd255(argb_int, 24)>>

HexDigits == "0123456789abcdef"
\* '{:02x}'.format(n) of a byte
Hex2(n) == Char(HexDigits, (n \div 16) + 1) \o Char(HexDigits, (n % 16) + 1)

\* __rgba_to_hex
RgbaToHex(rgba) ==
    "#" \o Hex2(rgba[1]) \o Hex2(rgba[2]) \o Hex2(rgba[3]) \o Hex2(rgba[4])

\* __get_colours
GetColours(argb_int) ==
    [rgba |-> ArgbIntToRgba(argb_int), hex |-> RgbaToHex(ArgbIntToRgba(argb_int))]

\* dict.update: the values of d2 replace those of d1
Update(d1, d2) ==
    [k \in DOMAIN d1 \cup DOMAIN d2 |-> IF k \in DOMAIN d2 THEN d2[k] ELSE d1[k]]

\* data.pop(key) for the keys
Without(d, keys) == [k \in DOMAIN d \ keys |-> d[k]]

\* __IMPORTANT_KEYS_AND_REMAPPINGS
IMPORTANT_KEYS_AND_REMAPPINGS ==
    [timestampUsec |-> "timestamp", authorExternalChannelId |-> "author_id",
     authorName |-> "author", message |-> "message", timestampText |-> "time_text",
     purchaseAmountText |-> "amount", headerBackgroundColor |-> "header_color",
     bodyBackgroundColor |-> "body_color", amount |-> "amount",
     startBackgroundColor |-> "body_color", durationSec |-> "ticker_duration",
     detailText |-> "message", headerPrimaryText |-> "header_primary_text",
     headerSubtext |-> "header_subtext", sticker |-> "sticker",
     backgroundColor |-> "body_color"]

\* __AUTHORTYPE_ORDER_MAP.get(icon_type, 0)
AUTHORTYPE_ORDER == <<"", "VERIFIED", "MEMBER", "MODERATOR", "OWNER">>
AuthorTypeOrder(icon_type) ==
    IF \E i \in 1..Len(AUTHORTYPE_ORDER) : AUTHORTYPE_ORDER[i] = icon_type
    THEN (CHOOSE i \in 1..Len(AUTHORTYPE_ORDER) : AUTHORTYPE_ORDER[i] = icon_type) - 1
    ELSE 0

\* one entry of authorBadges: whether it has a liveChatAuthorBadgeRenderer, its
\* tooltip and its icon.iconType ("" when absent)
Badge(renderer, tooltip, icon_type) ==
    [renderer |-> renderer, tooltip |-> tooltip, iconType |-> icon_type]

\* if tooltip: ... if not icon_type: icon_type = 'MEMBER'
IconType(badge) ==
    IF badge.tooltip # "" /\ badge.iconType = "" THEN "MEMBER" ELSE badge.iconType

\* variant: the badge listed last gives the type
OutranksAlways(icon_type, author_type) == TRUE

\* author_type == '' or order(icon_type) >= order(author_type)
Outranks(icon_type, author_type) ==
    author_type = "" \/ AuthorTypeOrder(icon_type) >= AuthorTypeOrder(author_type)

\* the loop over author_badges from its k-th entry on
RECURSIVE AuthorTypeLoop(_, _, _)
AuthorTypeLoop(author_badges, k, author_type) ==
    IF k > Len(author_badges) THEN author_type
    ELSE LET badge == author_badges[k] IN
         AuthorTypeLoop(author_badges, k + 1,
            IF badge.renderer /\ IconType(badge) # ""
                /\ Outranks(IconType(badge), author_type)
            THEN IconType(badge) ELSE author_type)

\* ', '.join(badges)
RECURSIVE JoinComma(_)
JoinComma(strs) ==
    IF Len(strs) = 0 THEN ""
    ELSE IF Len(strs) = 1 THEN strs[1]
    ELSE strs[1] \o ", " \o JoinComma(Tail(strs))

\* the tooltips appended to badges
HasTooltip(badge) == badge.renderer /\ badge.tooltip # ""
Tooltips(author_badges) ==
    LET with_tooltip == SelectSeq(author_badges, HasTooltip) IN
    [i \in 1..Len(with_tooltip) |-> with_tooltip[i].tooltip]

\* ''.join of the texts of the runs
RECURSIVE Concat(_)
Concat(texts) ==
    IF Len(texts) = 0 THEN "" ELSE texts[1] \o Concat(Tail(texts))

\* __parse_message_runs on a string or on an object with runs of text
ParseMessageRuns(message) ==
    IF "str" \in DOMAIN message THEN message.str
    ELSE IF "runs" \in DOMAIN message THEN Concat(message.runs)
    ELSE ""

\* __parse_sticker
ParseSticker(sticker) ==
    IF "label" \in DOMAIN sticker /\ sticker.label # ""
    THEN "<<" \o sticker.label \o ">>" ELSE ""

\* the keys of the item that are remapped, 'simpleText' taken out of an object
ImportantItemInfo(fields) ==
    LET important == DOMAIN fields \cap DOMAIN IMPORTANT_KEYS_AND_REMAPPINGS IN
    [new_key \in {IMPORTANT_KEYS_AND_REMAPPINGS[key] : key \in important} |->
        LET value == fields[CHOOSE key \in important :
                                IMPORTANT_KEYS_AND_REMAPPINGS[key] = new_key] IN
        IF "simpleText" \in DOMAIN value THEN Str(value.simpleText) ELSE value]

\* data['badges'] and data['author_type'], when authorBadges is not empty
WithBadges(data, author_badges) ==
    IF Len(author_badges) = 0 THEN data
    ELSE Update(data, [badges |-> Str(JoinComma(Tooltips(author_badges))),
                       author_type |-> Str(AuthorTypeLoop(author_badges, 1, ""))])

\* the if/elif chain on header_primary_text, header_subtext, sticker, amount
\* and message: data with its message, the two headers and the sticker popped
WithMessage(data) ==
    LET has(k) == k \in DOMAIN data
        tail == IF has("message") THEN ": " \o ParseMessageRuns(data["message"]) ELSE ""
        message ==
            IF has("header_primary_text")
            THEN Str(ParseMessageRuns(data["header_primary_text"])
                     \o (IF has("header_subtext")
                         THEN " (" \o ParseMessageRuns(data["header_subtext"]) \o ")"
                         ELSE "")
                     \o tail)
            ELSE IF has("header_subtext")
            THEN Str(ParseMessageRuns(data["header_subtext"]))
            ELSE IF has("sticker") THEN Str(ParseSticker(data["sticker"]) \o tail)
            ELSE IF has("amount")
            THEN (IF has("message") THEN Str(ParseMessageRuns(data["message"]))
                  ELSE Str("<<no message>>"))
            ELSE IF has("message") THEN Str(ParseMessageRuns(data["message"]))
            ELSE NoneValue
        popped == IF has("header_primary_text")
                  THEN {"header_primary_text", "header_subtext"}
                  ELSE IF has("header_subtext") THEN {"header_subtext"}
                  ELSE IF has("sticker") THEN {"sticker"} ELSE {}
    IN Update(Without(data, popped), [message |-> message])

\* int(timestamp) and the datetime of its seconds, when timestamp is truthy
WithTimestamp(data) ==
    IF "timestamp" \in DOMAIN data /\ data["timestamp"] # Str("")
    THEN LET timestamp == PyInt(data["timestamp"].str) IN
         IF ~timestamp.ok THEN [raised |-> TRUE, data |-> data]
         ELSE [raised |-> FALSE,
               data |-> Update(data, [timestamp |-> IntValue(timestamp.value),
                                      datetime |-> [datetime |-> timestamp.value
                                                                   \div 1000000]])]
    ELSE [raised |-> FALSE, data |-> data]

\* data['time_in_seconds'] = int(__time_to_seconds(data['time_text']))
WithTimeInSeconds(data) ==
    IF "time_text" \in DOMAIN data
    THEN LET t == TimeToSeconds(data["time_text"].str) IN
         IF t.kind = "raised" THEN [raised |-> TRUE, data |-> data]
         ELSE [raised |-> FALSE,
               data |-> Update(data, [time_in_seconds |-> IntValue(t.value)])]
    ELSE [raised |-> FALSE, data |-> data]

\* the loop over ('header_color', 'body_color')
WithColours(data) ==
    [k \in DOMAIN data |->
        IF k \in {"header_color", "body_color"} THEN GetColours(data[k]) ELSE data[k]]

\* variant: the outer record keeps its values, all but message
MergeKeepsOuter(data, renderer_data) ==
    [k \in DOMAIN data \cup DOMAIN renderer_data |->
        IF k \in DOMAIN data /\ k # "message" THEN data[k] ELSE renderer_data[k]]

\* data.update(self.__parse_item(... ['renderer']))
MergeRenderer(data, renderer_data) ==
    Update(data, renderer_data)

\* __parse_item: the record, or the exception of a conversion.  An item with a
\* showItemEndpoint returns right after the record of the renderer under it has
\* been merged into its own.
RECURSIVE ParseItemInfo(_)
ParseItemInfo(it) ==
    LET data == WithBadges(ImportantItemInfo(it.fields), it.authorBadges) IN
    IF Len(it.showItemEndpoint) > 0
    THEN LET renderer == ParseItemInfo(it.showItemEndpoint[1]) IN
         [raised |-> renderer.raised, data |-> MergeRenderer(data, renderer.data)]
    ELSE LET stamped == WithTimestamp(WithMessage(data)) IN
         IF stamped.raised THEN stamped
         ELSE LET timed == WithTimeInSeconds(stamped.data) IN
              IF timed.raised THEN timed
              ELSE [raised |-> FALSE, data |-> WithColours(timed.data)]


\* an item as __parse_item reads it: the keys of item_info and their values,
\* authorBadges (empty when absent), and the item_info of
\* showItemEndpoint.showLiveChatItemEndpoint.renderer (no entry when absent)
ItemInfo(fields, author_badges, renderers) ==
    [fields |-> fields, authorBadges |-> author_badges, showItemEndpoint |-> renderers]

\* the upper and lower halves of the colours the items carry
HalfSamples == {0, 1, 255, 256, 4080, 32768, 33023, 65280, 65535}
\* paid messages with their two colours
ColourItems ==
    {ItemInfo([headerBackgroundColor |-> Argb(hi, lo),
               bodyBackgroundColor |-> Argb(lo, hi),
               purchaseAmountText |-> SimpleText("$5.00"),
               message |-> Runs(<<"hi">>)], <<>>, <<>>) :
        hi \in HalfSamples, lo \in HalfSamples}

MaxBadges == 3
\* the entries of authorBadges: the icons of the order with and without a
\* tooltip, the badge of a member (a tooltip and a thumbnail, no icon), an
\* entry without tooltip and icon, an entry that is no liveChatAuthorBadgeRenderer
BadgeSamples ==
    {Badge(TRUE, "", "VERIFIED"), Badge(TRUE, "Verified", "VERIFIED"),
     Badge(TRUE, "Moderator", "MODERATOR"), Badge(TRUE, "Owner", "OWNER"),
     Badge(TRUE, "", "MEMBER"), Badge(TRUE, "Member (1 month)", ""),
     Badge(TRUE, "", ""), Badge(FALSE, "", "")}
BadgeLists ==
    UNION {[1..n -> BadgeSamples] : n \in 1..MaxBadges}
\* text messages of authors with badges
BadgeItems ==
    {ItemInfo([authorName |-> SimpleText("a"), message |-> Runs(<<"h", "i">>),
               timestampUsec |-> Str("7000000")], author_badges, <<>>) :
        author_badges \in BadgeLists}

\* the items of the ticker: the keys of the outer renderer, and those of the
\* paid message, the paid sticker or the membership item under its
\* showItemEndpoint
TickerFields ==
    {[amount |-> SimpleText("$5"), durationSec |-> IntValue(5),
      startBackgroundColor |-> Argb(33023, 0)],
     [amount |-> SimpleText("$5"), durationSec |-> IntValue(5),
      authorExternalChannelId |-> Str("outer")],
     [detailText |-> SimpleText("Member"), durationSec |-> IntValue(5),
      startBackgroundColor |-> Argb(65280, 255)]}
RendererFields ==
    {[purchaseAmountText |-> SimpleText("$5.00"), message |-> Runs(<<"hi">>),
      authorName |-> SimpleText("a"), timestampUsec |-> Str("7000000"),
      bodyBackgroundColor |-> Argb(65535, 65535),
      authorExternalChannelId |-> Str("nested")],
     [purchaseAmountText |-> SimpleText("$5.00"), authorName |-> SimpleText("a"),
      sticker |-> Sticker("wave"), backgroundColor |-> Argb(32768, 1),
      timestampText |-> Str("1:05")],
     [headerSubtext |-> Runs(<<"Welcome">>), authorName |-> SimpleText("a"),
      timestampUsec |-> Str("7000000")]}
TickerBadges == {<<>>, <<Badge(TRUE, "Owner", "OWNER")>>}
RendererBadges == {<<>>, <<Badge(TRUE, "Member (1 month)", "")>>}
TickerItems ==
    {ItemInfo(outer, outer_badges, <<ItemInfo(nested, nested_badges, <<>>)>>) :
        outer \in TickerFields, outer_badges \in TickerBadges,
        nested \in RendererFields, nested_badges \in RendererBadges}

\* data = __parse_item(item)
ParseItemCall ==
    /\ mainpc = "item"
    /\ item_data.kind = "pending"
    /\ item_data' = (LET parsed == ParseItemInfo(item_info) IN
                     IF parsed.raised THEN [kind |-> "raised"]
                     ELSE [kind |-> "returned", data |-> parsed.data])
    /\ UNCHANGED <<argVars, stdout, twitchVars, engineVars, mainVars,
                   fetch_fn, fetched, fetch_result, post_payload,
                   connection_read_timeout_try_ct, session_last, session_result,
                   parseVars, jsonVars, item_info, seconds, time_text, round_trip>>

InitItem ==
    /\ InitConversionsOnly
    /\ mainpc = "item"
    /\ item_info \in ColourItems \cup BadgeItems \cup TickerItems
    /\ item_data = [kind |-> "pending"]
    /\ seconds = 0
    /\ time_text = "None"
    /\ round_trip = [kind |-> "pending"]

NextItem == ParseItemCall

SpecItem == InitItem /\ [][NextItem]_vars

(***************************************************************************)
(* Properties of __parse_item, checked under SpecItem.                     *)
(***************************************************************************)
\* the byte the two hexadecimal digits of hex at position i stand for
HexByte(hex, i) ==
    LET value(ch) == (CHOOSE d \in 1..16 : Char(HexDigits, d) = ch) - 1 IN
    16 * value(Char(hex, i)) + value(Char(hex, i + 1))

\* rgba and hex of the sub-record are those of the ARGB integer c: the bytes
\* are alpha and red in the upper half of c, green and blue in the lower half
ColoursOf(c, colours) ==
    /\ colours.rgba = <<c.hi % 256, c.lo \div 256, c.lo % 256, c.hi \div 256>>
    /\ \A i \in 1..4 : colours.rgba[i] \in 0..255
    /\ colours.rgba[4] * 256 + colours.rgba[1] = c.hi
    /\ colours.rgba[2] * 256 + colours.rgba[3] = c.lo
    /\ Len(colours.hex) = 9
    /\ Char(colours.hex, 1) = "#"
    /\ \A i \in 2..9 : \E d \in 1..16 : Char(HexDigits, d) = Char(colours.hex, i)
    /\ \A i \in 1..4 : HexByte(colours.hex, 2 * i) = colours.rgba[i]

\* C36: the colour sub-record of an ARGB integer c of 32 bits has
\* rgba = [(c>>16)&255, (c>>8)&255, c&255, (c>>24)&255] and hex = '#RRGGBBAA'
\* of these four bytes, in lower case; A*2^24 + R*2^16 + G*2^8 + B is c again;
\* 0x80FF0000 gives [255, 0, 0, 128] and '#ff000080'.
C36_ColoursOfArgb ==
    (item_data.kind = "returned" /\ "headerBackgroundColor" \in DOMAIN item_info.fields) =>
        /\ ColoursOf(item_info.fields.headerBackgroundColor, item_data.data.header_color)
        /\ ColoursOf(item_info.fields.bodyBackgroundColor, item_data.data.body_color)
        /\ item_info.fields.headerBackgroundColor = Argb(33023, 0) =>
            item_data.data.header_color = [rgba |-> <<255, 0, 0, 128>>, hex |-> "#ff000080"]

\* 0x80FF0000 as the header colour, 0x000080FF as the body colour
C36_Witness ==
    /\ "headerBackgroundColor" \in DOMAIN item_info.fields
    /\ item_info.fields.headerBackgroundColor = Argb(33023, 0)
    /\ item_data.kind = "returned"
    /\ item_data.data.header_color.hex = "#ff000080"
    /\ item_data.data.body_color.rgba = <<0, 128, 255, 0>>


\* the order '' < VERIFIED < MEMBER < MODERATOR < OWNER
RankInOrder(author_type) ==
    CASE author_type = "VERIFIED" -> 1
      [] author_type = "MEMBER" -> 2
      [] author_type = "MODERATOR" -> 3
      [] author_type = "OWNER" -> 4
      [] OTHER -> 0

\* the icon types of the badges of a list, a tooltip without an icon counted
\* as MEMBER
IconTypesOf(author_badges) ==
    {IF author_badges[i].tooltip # "" /\ author_badges[i].iconType = ""
     THEN "MEMBER" ELSE author_badges[i].iconType :
        i \in {j \in 1..Len(author_badges) : author_badges[j].renderer}} \ {""}

\* the icon type of the highest rank among the badges, '' when they have none
HighestRanked(author_badges) ==
    IF IconTypesOf(author_badges) = {} THEN ""
    ELSE CHOOSE t \in IconTypesOf(author_badges) :
            \A u \in IconTypesOf(author_badges) : RankInOrder(u) <= RankInOrder(t)

\* the tooltips from the k-th badge on, in the order of the list, with ', '
\* between them
RECURSIVE TooltipsInOrder(_, _)
TooltipsInOrder(author_badges, k) ==
    IF k > Len(author_badges) THEN ""
    ELSE LET rest == TooltipsInOrder(author_badges, k + 1)
             badge == author_badges[k] IN
         IF badge.renderer /\ badge.tooltip # ""
         THEN badge.tooltip \o (IF rest # "" THEN ", " \o rest ELSE "")
         ELSE rest

\* two lists with the same badges, each as many times
SameBadges(l1, l2) ==
    /\ Len(l1) = Len(l2)
    /\ \A b \in BadgeSamples :
        Cardinality({i \in 1..Len(l1) : l1[i] = b})
            = Cardinality({i \in 1..Len(l2) : l2[i] = b})

OuterRecord == WithBadges(ImportantItemInfo(item_info.fields), item_info.authorBadges)
NestedRecord == ParseItemInfo(item_info.showItemEndpoint[1]).data
MergedItem == item_data.kind = "returned" /\ Len(item_info.showItemEndpoint) > 0

\* C34, as stated: in the record of an item with a renderer under
\* showItemEndpoint, every field other than message that both the outer and
\* the nested item produce has the value of the outer item; message is that of
\* the nested item.
C34_OuterFieldsWin ==
    MergedItem =>
        /\ \A k \in (DOMAIN OuterRecord \cap DOMAIN NestedRecord) \ {"message"} :
            item_data.data[k] = OuterRecord[k]
        /\ item_data.data.message = NestedRecord.message

\* C34, amended: the record has the fields of both; every field the nested
\* item produces has the nested item's value, message among them; the outer
\* item's value is kept for the fields the nested item does not produce.
C34_NestedFieldsWin ==
    MergedItem =>
        /\ DOMAIN item_data.data = DOMAIN OuterRecord \cup DOMAIN NestedRecord
        /\ \A k \in DOMAIN NestedRecord : item_data.data[k] = NestedRecord[k]
        /\ \A k \in DOMAIN OuterRecord \ DOMAIN NestedRecord :
            item_data.data[k] = OuterRecord[k]
        /\ item_data.data.message = NestedRecord.message

\* a ticker item and its paid message both with an amount, a colour, a channel
\* id and badges
C34_Witness ==
    /\ MergedItem
    /\ {"amount", "body_color", "author_type"} \subseteq
            DOMAIN OuterRecord \cap DOMAIN NestedRecord
    /\ OuterRecord.amount = Str("$5")
    /\ item_data.data.amount = Str("$5.00")
    /\ item_data.data.author_type = Str("MEMBER")
    /\ item_data.data.ticker_duration = IntValue(5)
    /\ item_data.data.message = Str("hi")

(***************************************************************************)
(* Properties of the try around one action, checked under SpecActions.     *)
(***************************************************************************)
\* a step in which the handling of one action raises an ordinary exception:
\* the item has no key, the normalizer fails, the callback fails
MalformedActionStep ==
    /\ pc = "p3_item"
    /\ Len(seen') = Len(seen) + 1
    /\ seen'[Len(seen')].hasItem
    /\ seen'[Len(seen')].rend = ""
NormalizerFailsStep == pc = "parse" /\ cur.bad
CallbackFailsStep == pc = "deliver" /\ callback \in {"bad_arity", "raising"}

\* the exception goes no further than the action: the loop is at the next
\* action of the same response, from where it advances the continuation once
\* the actions are through; no exception is on its way, the buffer, the
\* response and the token are as before
ConfinedToAction ==
    /\ pc' = "p3_item"
    /\ exc' = exc
    /\ messages' = messages
    /\ info' = info
    /\ continuation' = continuation
    /\ polls' = polls

\* every record of the buffer is the full record of an action that was seen,
\* had an item with a key, and on which the normalizer did not fail
BufferHoldsFullRecords ==
    \A i \in 1..Len(messages) :
        \E j \in 1..Len(seen) :
            /\ seen[j].hasItem
            /\ seen[j].rend # ""
            /\ ~seen[j].bad
            /\ messages[i] = ParseItem(seen[j])

\* C40: an ordinary exception raised while one action is handled (an item
\* without key, a failure of the normalizer, a failure of the callback) stays
\* with that action: the loop goes on with the next action of the response and
\* advances the continuation after the last; the records in the buffer are
\* unchanged; a record is in the buffer only when the normalizer has built it
\* in full before the append.
C40_ExceptionConfinedToAction ==
    /\ [][(MalformedActionStep \/ NormalizerFailsStep \/ CallbackFailsStep)
            => ConfinedToAction]_vars
    /\ [](BufferHoldsFullRecords /\ (pc = "raised" => exc.at # "item"))

\* the normalizer failed on the first action, the second went into the buffer,
\* its callback failed, and the loop has taken the next token
C40_Witness ==
    /\ Len(seen) = 2
    /\ seen[1].bad
    /\ ~seen[2].bad /\ seen[2].rend # ""
    /\ callback = "raising"
    /\ messages = <<ParseItem(seen[2])>>
    /\ pc = "p3_check"
    /\ polls = 1
    /\ ~first_time

====
